---- MODULE Spec2Model ----
(***************************************************************************)
(* Model of the action execution engine (the act handler utilities):       *)
(* methodHandlerMap, the per-verb handlers, fallbackLocatorMethod and      *)
(* handlePossiblePageNavigation.  One action of the model is one awaited   *)
(* step of a handler; the page, the browser context and the locator are    *)
(* the environment, whose calls succeed or throw nondeterministically.     *)
(*                                                                         *)
(* JavaScript strings are sequences of one-character strings; error        *)
(* messages and log values are sequences of tokens, a template literal     *)
(* being the concatenation of its pieces.                                  *)
(***************************************************************************)
EXTENDS Integers, Sequences, FiniteSets, TLC

VARIABLES
  pc,            \* position of the running handler ("idle" before any action)
  ctx,           \* the MethodHandlerContext of the running action
  dom,           \* what the page holds for the element of the action
  finalLocator,  \* clickElement: the locator that is clicked
  firstError,    \* clickElement: the error of the first click attempt
  pos,           \* fillOrType: number of characters typed so far
  trace,         \* the calls the handler has made on locator, page and context
  logs,          \* the records handed to ctx.logger
  result,        \* "pending", "success" or "threw"
  thrown,        \* the error the caller receives when result = "threw"
  recovered,     \* the failures the handler caught without rethrowing
  newOpenedTab,  \* handlePossiblePageNavigation: the winner of the race
  raceArmed,     \* the promise of the running race is still unresolved
  listeners,     \* live "page" listeners registered on the context
  openTabs,      \* tabs other than the original page that are open
  tabsOpened,    \* number of tabs opened so far
  actionTabs,    \* tabs opened since the running action interacted
  pageUrl,       \* stagehandPage.page.url()
  loadState,     \* load state the original page was last waited into
  domSettled,    \* the DOM of the original page is quiet
  actionsDone,   \* number of actions dispatched so far
  evalTasks      \* the evaluation runner: the task of each testcase

vars == << pc, ctx, dom, finalLocator, firstError, pos, trace, logs, result,
           thrown, recovered, newOpenedTab, raceArmed, listeners, openTabs,
           tabsOpened, actionTabs, pageUrl, loadState, domSettled,
           actionsDone, evalTasks >>

\* the variables of the action handlers, which the evaluation runner leaves alone
handlerVars == << pc, ctx, dom, finalLocator, firstError, pos, trace, logs,
                  result, thrown, recovered, newOpenedTab, raceArmed,
                  listeners, openTabs, tabsOpened, actionTabs, pageUrl,
                  loadState, domSettled, actionsDone >>

----------------------------------------------------------------------------
(* Bounds *)

MaxActions == 1
MaxTabs == 2
MaxLabels == 1
MaxSiblings == 2
MaxText == 2
MaxPercentLen == 3
MaxTestcases == 2

----------------------------------------------------------------------------
(* Values *)

NoTab == [id |-> 0]
Tab(i) == [id |-> i]
NoLocator == [kind |-> "none", first |-> FALSE]
NoError == [name |-> "none", message |-> << >>]
\* the outcome of a call that has been sent and is not done yet
Pending == [name |-> "pending", message |-> << >>]

Str(s) == [t |-> "string", v |-> s]
Obj(o) == [t |-> "object", v |-> o]
Null == [t |-> "null"]

ObjectObject ==
  << "[", "o", "b", "j", "e", "c", "t", " ", "O", "b", "j", "e", "c", "t", "]" >>

\* arg.toString() for the argument values of the model
toString(a) == IF a.t = "string" THEN a.v ELSE ObjectObject

\* whether msg holds sub as a contiguous part
Contains(msg, sub) ==
  \E i \in 1..(Len(msg) - Len(sub) + 1) : SubSeq(msg, i, i + Len(sub) - 1) = sub

TabUrl(t) == << "tab", t.id >>
InitialUrl == << "start" >>

Err(name, site) == [name |-> name, message |-> << name, site >>]

\* what an awaited call can throw at a given site: a click may time out or
\* fail otherwise, for the other calls one error stands for all
Failures(site) ==
  IF site \in { "click", "force-click" }
  THEN { Err("TimeoutError", site), Err("Error", site) }
  ELSE { Err("Error", site) }

Stack(e) == << "stack" >> \o e.message

PlaywrightCommandException(message) ==
  [name |-> "PlaywrightCommandException", message |-> message]

LogRec(message, level, auxiliary) ==
  [category |-> "action", message |-> message, level |-> level,
   auxiliary |-> auxiliary]

NoAux == [k \in {} |-> << >>]

JSONstringify(args) == [json |-> args]

\* { ...base, ...over }
Spread(base, over) ==
  [k \in (DOMAIN base) \cup (DOMAIN over) |->
     IF k \in DOMAIN over THEN over[k] ELSE base[k]]

\* one call made by the handler, with the error it threw (NoError: none)
Call(op, on, arg, err) == [op |-> op, on |-> on, arg |-> arg, err |-> err]

SetErr(t, e) == [t EXCEPT ![Len(t)].err = e]

Ops(t) == { t[i].op : i \in DOMAIN t }

\* the calls through which the page is acted on and may react
Interactions == { "click", "press", "type", "invoke" }

Interacted == pc \notin {"idle", "done"} /\ Ops(trace) \cap Interactions # {}

----------------------------------------------------------------------------
(* Program constants *)

ClickTimeout == 5000
NewTabTimeout == 1500

----------------------------------------------------------------------------
(* The dispatch table *)

methodHandlerMap_CaseInsensitive ==
  [m \in { "scrollIntoView", "scrollTo", "scroll", "mouse.wheel", "fill",
           "type", "press", "click", "Click", "nextChunk", "prevChunk" } |->
     CASE m = "scrollIntoView" -> "scrollElementIntoView"
       [] m \in {"scrollTo", "scroll", "mouse.wheel"} -> "scrollElementToPercentage"
       [] m \in {"fill", "type"} -> "fillOrType"
       [] m = "press" -> "pressKey"
       [] m \in {"click", "Click"} -> "clickElement"
       [] m = "nextChunk" -> "scrollToNextChunk"
       [] m = "prevChunk" -> "scrollToPreviousChunk"]

\* lines 12-26
methodHandlerMap ==
  [m \in { "scrollIntoView", "scrollTo", "scroll", "mouse.wheel", "fill",
           "type", "press", "click", "nextChunk", "prevChunk" } |->
     CASE m = "scrollIntoView" -> "scrollElementIntoView"
       [] m \in {"scrollTo", "scroll", "mouse.wheel"} -> "scrollElementToPercentage"
       [] m \in {"fill", "type"} -> "fillOrType"
       [] m = "press" -> "pressKey"
       [] m = "click" -> "clickElement"
       [] m = "nextChunk" -> "scrollToNextChunk"
       [] m = "prevChunk" -> "scrollToPreviousChunk"]

\* lookup by the caller: exact match, otherwise the fallback
HandlerFor(m) ==
  IF m \in DOMAIN methodHandlerMap THEN methodHandlerMap[m]
  ELSE "fallbackLocatorMethod"

----------------------------------------------------------------------------
(* Inputs *)

XPaths == { "/html/body/form/input[1]" }

SettleTimeouts == { "undefined" }

EmptyOptions == [k \in {} |-> TRUE]
CallerOptions == [timeout |-> 100, force |-> FALSE, button |-> "right"]

ClickArgLists == { << >>, << Obj(CallerOptions) >> }

\* a rational number n / d, d > 0
Rat(n, d) == [n |-> n, d |-> d]

\* the geometry the scroll handlers read: heights in pixels, offsets in pixels
\* (the vertical ones rational)
Layouts ==
  { [viewportHeight |-> 600, innerHeight |-> 640, bodyScrollHeight |-> 2000,
     boundingHeight |-> 200, scrollHeight |-> 500, clientHeight |-> 180,
     scrollX |-> 0, scrollY |-> Rat(0, 1), scrollLeft |-> 0,
     scrollTop |-> Rat(0, 1)],
    [viewportHeight |-> 300, innerHeight |-> 300, bodyScrollHeight |-> 900,
     boundingHeight |-> 120, scrollHeight |-> 400, clientHeight |-> 100,
     scrollX |-> 30, scrollY |-> Rat(450, 1), scrollLeft |-> 7,
     scrollTop |-> Rat(150, 1)] }

DefaultLayout == CHOOSE l \in Layouts : l.scrollX = 0

DefaultDom ==
  [isRadio |-> FALSE, inputId |-> << >>, forCount |-> 0, ancestorCount |-> 0,
   followingCount |-> 0, precedingCount |-> 0, resolved |-> TRUE,
   tagName |-> "input", layout |-> DefaultLayout]

ClickDoms ==
  { [DefaultDom EXCEPT !.isRadio = r, !.inputId = id, !.forCount = f,
                       !.ancestorCount = a, !.followingCount = n,
                       !.precedingCount = p] :
      r \in BOOLEAN, id \in { << >>, << "o", "p", "t", "1" >> },
      f \in 0..MaxLabels, a \in 0..MaxLabels, n \in 0..MaxSiblings,
      p \in 0..MaxSiblings }

\* the element of a scroll action: not found, the root, the body, or another
ScrollDoms ==
  { [DefaultDom EXCEPT !.resolved = r, !.tagName = t, !.layout = l] :
      r \in BOOLEAN, t \in { "html", "body", "div" }, l \in Layouts }

PercentStrings ==
  { << "0", "%" >>, << "5", "0", "%" >>, << "1", "5", "0", "%" >>,
    << "-", "1", "0" >>, << "a", "b", "c" >>,
    << " ", "3", "7", ".", "5", "%", " " >>, << "1", "0", "0" >>,
    << "%", "2", "5" >>, << >> }

\* every string of up to MaxPercentLen characters of a percentage
PercentAlphabet == { "0", "1", "5", ".", "-", "%", " " }
PercentInputs ==
  PercentStrings \cup UNION { [1..n -> PercentAlphabet] : n \in 0..MaxPercentLen }

PercentArgLists == { << >> } \cup { << Str(t) >> : t \in PercentStrings }

\* texts over a two-letter alphabet, up to MaxText characters
Texts == UNION { [1..n -> { "a", "b" }] : n \in 0..MaxText }

FillArgLists == { << >>, << Null >> } \cup { << Str(t) >> : t \in Texts }

FallbackArgLists ==
  { << >>, << Str(<< "x" >>) >>, << Null, Str(<< "y" >>) >>, << Str(<< >>) >> }

\* capabilities of the locator that the table does not name
LocatorMethods == { "hover", "dblclick" }

Verbs ==
  (DOMAIN methodHandlerMap) \cup LocatorMethods \cup { "Click" }

PressArgLists == { << >>, << Str(<< "E", "n", "t", "e", "r" >>) >> }

ArgListsOf(h) ==
  CASE h = "clickElement" -> ClickArgLists
    [] h = "pressKey" -> PressArgLists
    [] h = "fillOrType" -> FillArgLists
    [] h = "scrollElementToPercentage" -> PercentArgLists
    [] h = "fallbackLocatorMethod" -> FallbackArgLists
    [] OTHER -> { << >> }

DomsOf(h) ==
  CASE h = "clickElement" -> ClickDoms
    [] h \in { "scrollElementToPercentage", "scrollToNextChunk",
               "scrollToPreviousChunk" } -> ScrollDoms
    [] OTHER -> { DefaultDom }

StartOf(h) ==
  CASE h = "clickElement" -> "click"
    [] h = "pressKey" -> "press"
    [] h = "fillOrType" -> "fill"
    [] h = "scrollElementIntoView" -> "intoView"
    [] h = "fallbackLocatorMethod" -> "fallback"
    [] h = "scrollElementToPercentage" -> "percent"
    [] OTHER -> "chunk"

----------------------------------------------------------------------------
(* Initial state and dispatch *)

\* The testcases handed to the task of the evaluation run; the runner keeps
\* up to maxConcurrency of them in flight, each with its own logger and
\* session.
Testcases == 1..MaxTestcases

NoResult == [from |-> "none", success |-> FALSE, error |-> {}, logs |-> << >>]

\* no value has been thrown
NoThrow ==
  [type |-> "none", nullish |-> FALSE, own |-> {}, circular |-> FALSE]

\* a testcase whose task has not been called yet
QueuedTask ==
  [pc |-> "queued", initialised |-> FALSE, closeCalls |-> 0,
   raised |-> FALSE, pending |-> NoThrow, logs |-> << >>,
   result |-> NoResult, escaped |-> "none"]

QueuedTasks == [t \in Testcases |-> QueuedTask]

NoCtx ==
  [method |-> "none", xpath |-> "none", args |-> << >>,
   initialUrl |-> InitialUrl, domSettleTimeoutMs |-> "undefined"]

Init ==
  /\ pc = "idle"
  /\ ctx = NoCtx
  /\ dom = DefaultDom
  /\ finalLocator = NoLocator
  /\ firstError = NoError
  /\ pos = 0
  /\ trace = << >>
  /\ logs = << >>
  /\ result = "pending"
  /\ thrown = NoError
  /\ recovered = {}
  /\ newOpenedTab = NoTab
  /\ raceArmed = FALSE
  /\ listeners = 0
  /\ openTabs = {}
  /\ tabsOpened = 0
  /\ actionTabs = {}
  /\ pageUrl = InitialUrl
  /\ loadState = "load"
  /\ domSettled = TRUE
  /\ actionsDone = 0
  /\ evalTasks = QueuedTasks

Handler == HandlerFor(ctx.method)

\* the first argument of handlePossiblePageNavigation (lines 300, 443)
ActionDescription == IF Handler = "pressKey" THEN "press" ELSE "click"

\* The caller builds a fresh context and calls the handler of the verb.
Dispatch ==
  /\ pc = "idle"
  /\ actionsDone < MaxActions
  /\ \E m \in Verbs, x \in XPaths, st \in SettleTimeouts :
       \E a \in ArgListsOf(HandlerFor(m)), d \in DomsOf(HandlerFor(m)) :
         /\ ctx' = [method |-> m, xpath |-> x, args |-> a,
                    initialUrl |-> pageUrl, domSettleTimeoutMs |-> st]
         /\ dom' = d
         /\ pc' = StartOf(HandlerFor(m))
  /\ actionsDone' = actionsDone + 1
  /\ UNCHANGED << finalLocator, firstError, pos, trace, logs, result, thrown,
                  recovered, newOpenedTab, raceArmed, listeners, openTabs,
                  tabsOpened, actionTabs, pageUrl, loadState, domSettled >>
  /\ UNCHANGED evalTasks

\* The caller has the outcome and drops the context of the finished action.
Discard ==
  /\ pc = "done"
  /\ pc' = "idle"
  /\ ctx' = NoCtx
  /\ dom' = DefaultDom
  /\ finalLocator' = NoLocator
  /\ firstError' = NoError
  /\ pos' = 0
  /\ trace' = << >>
  /\ logs' = << >>
  /\ result' = "pending"
  /\ thrown' = NoError
  /\ recovered' = {}
  /\ newOpenedTab' = NoTab
  /\ raceArmed' = FALSE
  /\ actionTabs' = {}
  /\ UNCHANGED << listeners, openTabs, tabsOpened, pageUrl, loadState,
                  domSettled, actionsDone >>
  /\ UNCHANGED evalTasks

\* the handler returns to the caller
Return(lg) ==
  /\ pc' = "done"
  /\ result' = "success"
  /\ logs' = logs \o lg
  /\ UNCHANGED thrown

\* the handler throws e to the caller
Throw(e, lg) ==
  /\ pc' = "done"
  /\ result' = "threw"
  /\ thrown' = e
  /\ logs' = logs \o lg

----------------------------------------------------------------------------
(* clickElement *)

Self == [kind |-> "self", first |-> FALSE]
ForLabel == [kind |-> "for", first |-> FALSE]
AncestorLabel == [kind |-> "ancestor", first |-> TRUE]
FollowingLabel == [kind |-> "following", first |-> TRUE]
PrecedingLabel == [kind |-> "preceding", first |-> TRUE]

\* number of elements of kind k around the element, in document order 1..n
Matches(d, k) ==
  CASE k = "self" -> 1
    [] k = "for" -> d.forCount
    [] k = "ancestor" -> d.ancestorCount
    [] k = "following" -> d.followingCount
    [] k = "preceding" -> d.precedingCount
    [] OTHER -> 0

\* await loc.count(); .first() keeps the first match in document order
Count(d, loc) ==
  IF loc.first /\ Matches(d, loc.kind) > 1 THEN 1 ELSE Matches(d, loc.kind)

\* The element a click on loc lands on, as its index in document order among
\* the matches of loc's kind: .first() is the first match in document order.
ClickedIndex(d, loc) == IF loc.first THEN 1 ELSE Matches(d, loc.kind)

\* How many labels of its kind lie between the input and the index-th match
\* (in document order), that match included: the sibling axes list the
\* following labels from the input on and the preceding ones up to the input.
StepsFromInput(d, kind, index) ==
  IF kind = "preceding" THEN Matches(d, kind) - index + 1 ELSE index

FinalLocator_SiblingBeforeAncestor(d) ==
  IF ~d.isRadio THEN Self
  ELSE
    LET l1 == IF d.inputId # << >> THEN ForLabel ELSE NoLocator
        l2 == IF l1 = NoLocator \/ Count(d, l1) < 1 THEN FollowingLabel ELSE l1
        l3 == IF Count(d, l2) < 1
              THEN IF Count(d, AncestorLabel) < 1 THEN PrecedingLabel
                   ELSE AncestorLabel
              ELSE l2
    IN IF Count(d, l3) > 0 THEN l3 ELSE Self

\* lines 355-386: the locator clickElement clicks
FinalLocator(d) ==
  IF ~d.isRadio THEN Self
  ELSE
    LET l1 == IF d.inputId # << >> THEN ForLabel ELSE NoLocator
        l2 == IF l1 = NoLocator \/ Count(d, l1) < 1 THEN AncestorLabel ELSE l1
        l3 == IF Count(d, l2) < 1
              THEN IF Count(d, FollowingLabel) < 1 THEN PrecedingLabel
                   ELSE FollowingLabel
              ELSE l2
    IN IF Count(d, l3) > 0 THEN l3 ELSE Self

\* const clickArg = (args[0] ?? {})
ClickArg(args) == IF Len(args) = 0 THEN EmptyOptions ELSE args[1].v

FirstClickOptions_CallerTimeoutWins(args) ==
  Spread([timeout |-> ClickTimeout], ClickArg(args))

FirstClickOptions(args) == Spread(ClickArg(args), [timeout |-> ClickTimeout])
ForcedClickOptions(args) == Spread(ClickArg(args), [force |-> TRUE])

IsTimeoutError_AnyError(e) == e.name \in { "TimeoutError", "Error" }

\* error instanceof PlaywrightErrors.TimeoutError
IsTimeoutError(e) == e.name = "TimeoutError"

ForcedClickFailedMessage_DropsForceError(xpath, error, forceError) ==
  << "Failed to click element at [", xpath, "]. ",
     "Timeout after 5s, then force-click also failed. ",
     "Original timeout error: " >> \o error.message

ForcedClickFailedMessage(xpath, error, forceError) ==
  << "Failed to click element at [", xpath, "]. ",
     "Timeout after 5s, then force-click also failed. ",
     "Original timeout error: " >> \o error.message
  \o << ", ", "Force-click error: " >> \o forceError.message

FirstClickFailedMessage(xpath, error) ==
  << "Failed to click element at [", xpath, "]. ", "Error: " >> \o error.message

ClickFailedMessage(xpath, e) ==
  << "Could not complete click action at [", xpath, "]. Reason: " >>
  \o e.message

\* lines 423-440: the catch around the whole of clickElement's try block
ClickCatch(e, lg) ==
  Throw(PlaywrightCommandException(ClickFailedMessage(ctx.xpath, e)),
        lg \o << LogRec(<< "error performing click" >>, 1,
                   [error |-> e.message, trace |-> Stack(e),
                    xpath |-> << ctx.xpath >>, method |-> << "click" >>,
                    args |-> JSONstringify(ctx.args)]) >>)

UnchangedPage ==
  UNCHANGED << listeners, openTabs, tabsOpened, actionTabs, pageUrl,
               loadState, domSettled, newOpenedTab, raceArmed >>

\* lines 333-349: log the URL, then ask the page whether el is a radio input
ClickIsRadio ==
  /\ pc = "click"
  /\ LET lg == << LogRec(<< "page URL before click" >>, 2, [url |-> pageUrl]) >>
     IN \/ /\ trace' = Append(trace, Call("evaluate", Self, "isRadio", NoError))
           /\ pc' = IF dom.isRadio THEN "click_label" ELSE "click_first"
           /\ finalLocator' = Self
           /\ logs' = logs \o lg
           /\ UNCHANGED << result, thrown >>
        \/ \E e \in Failures("isRadio") :
             /\ trace' = Append(trace, Call("evaluate", Self, "isRadio", e))
             /\ ClickCatch(e, lg)
             /\ UNCHANGED finalLocator
  /\ UNCHANGED << ctx, dom, firstError, pos, recovered, actionsDone >>
  /\ UnchangedPage
  /\ UNCHANGED evalTasks

\* lines 356-386: read the id and count the candidate labels
ClickLabel ==
  /\ pc = "click_label"
  /\ \/ /\ trace' = Append(trace, Call("count", FinalLocator(dom), "", NoError))
        /\ pc' = "click_first"
        /\ finalLocator' = FinalLocator(dom)
        /\ UNCHANGED << logs, result, thrown >>
     \/ \E e \in Failures("label") :
          /\ trace' = Append(trace, Call("count", NoLocator, "", e))
          /\ ClickCatch(e, << >>)
          /\ UNCHANGED finalLocator
  /\ UNCHANGED << ctx, dom, firstError, pos, recovered, actionsDone >>
  /\ UnchangedPage
  /\ UNCHANGED evalTasks

\* lines 498-512, reached without an await from the call of
\* handlePossiblePageNavigation: log, subscribe once to "page", start the timer
StartNavigation(tr, lg) ==
  /\ pc' = "nav_race"
  /\ logs' = logs \o lg \o
       << LogRec(<< ActionDescription, ", checking for page navigation" >>, 1,
                 [xpath |-> << ctx.xpath >>]) >>
  /\ trace' = tr \o << Call("once", "context", "page", NoError),
                        Call("setTimeout", "timer", NewTabTimeout, NoError) >>
  /\ listeners' = listeners + 1
  /\ raceArmed' = TRUE
  /\ UNCHANGED << result, thrown >>

UnchangedTabs ==
  UNCHANGED << openTabs, tabsOpened, actionTabs, pageUrl, loadState,
               domSettled, newOpenedTab >>

\* lines 389-393: finalLocator.click({ ...clickArg, timeout: 5000 }) is sent
ClickFirst ==
  /\ pc = "click_first"
  /\ trace' = Append(trace, Call("click", finalLocator,
                                 FirstClickOptions(ctx.args), Pending))
  /\ pc' = "click_first_wait"
  /\ UNCHANGED << ctx, dom, finalLocator, firstError, pos, logs, result,
                  thrown, recovered, actionsDone >>
  /\ UnchangedPage
  /\ UNCHANGED evalTasks

\* lines 394-421 and 442: the first click is done; on a TimeoutError go on to
\* the forced click, on another error fail, otherwise watch for navigation
ClickFirstDone ==
  /\ pc = "click_first_wait"
  /\ \/ /\ StartNavigation(SetErr(trace, NoError), << >>)
        /\ UNCHANGED firstError
     \/ \E error \in Failures("click") :
          /\ trace' = SetErr(trace, error)
          /\ firstError' = error
          /\ IF IsTimeoutError(error)
             THEN /\ pc' = "click_forced"
                  /\ logs' = Append(logs,
                      LogRec(<< "First click attempt timed out, retrying with force..." >>,
                             2, NoAux))
                  /\ UNCHANGED << result, thrown >>
             ELSE ClickCatch(PlaywrightCommandException(
                               FirstClickFailedMessage(ctx.xpath, error)), << >>)
          /\ UNCHANGED << listeners, raceArmed >>
  /\ UNCHANGED << ctx, dom, finalLocator, pos, recovered, actionsDone >>
  /\ UnchangedTabs
  /\ UNCHANGED evalTasks

\* lines 402-406: finalLocator.click({ ...clickArg, force: true }) is sent
ClickForced ==
  /\ pc = "click_forced"
  /\ trace' = Append(trace, Call("click", finalLocator,
                                 ForcedClickOptions(ctx.args), Pending))
  /\ pc' = "click_forced_wait"
  /\ UNCHANGED << ctx, dom, finalLocator, firstError, pos, logs, result,
                  thrown, recovered, actionsDone >>
  /\ UnchangedPage
  /\ UNCHANGED evalTasks

\* lines 407-415 and 442: the forced click is done
ClickForcedDone ==
  /\ pc = "click_forced_wait"
  /\ \/ /\ StartNavigation(SetErr(trace, NoError), << >>)
        /\ recovered' = recovered \cup { "click timeout" }
     \/ \E forceError \in Failures("force-click") :
          /\ trace' = SetErr(trace, forceError)
          /\ ClickCatch(PlaywrightCommandException(
               ForcedClickFailedMessage(ctx.xpath, firstError, forceError)),
               << >>)
          /\ UNCHANGED << recovered, listeners, raceArmed >>
  /\ UNCHANGED << ctx, dom, finalLocator, firstError, pos, actionsDone >>
  /\ UnchangedTabs
  /\ UNCHANGED evalTasks

----------------------------------------------------------------------------
(* pressKey *)

\* lines 307-319: the catch around pressKey's try block
PressCatch(e, lg) ==
  Throw(PlaywrightCommandException(e.message),
        lg \o << LogRec(<< "error pressing key" >>, 1,
                   [error |-> e.message, trace |-> Stack(e),
                    key |-> IF Len(ctx.args) = 0 \/ ctx.args[1].t = "null"
                            THEN << "unknown" >> ELSE toString(ctx.args[1])]) >>)

\* const key = args[0]?.toString() ?? ""
PressedKey(args) ==
  IF Len(args) = 0 \/ args[1].t = "null" THEN << >> ELSE toString(args[1])

\* lines 296-297: keyboard.press(key) is sent
PressKey ==
  /\ pc = "press"
  /\ trace' = Append(trace,
                Call("press", "keyboard", PressedKey(ctx.args), Pending))
  /\ pc' = "press_wait"
  /\ UNCHANGED << ctx, dom, finalLocator, firstError, pos, logs, result,
                  thrown, recovered, actionsDone >>
  /\ UnchangedPage
  /\ UNCHANGED evalTasks

PressKeyDone_SkipsNavigation ==
  /\ pc = "press_wait"
  /\ \/ /\ trace' = SetErr(trace, NoError)
        /\ Return(<< >>)
        /\ UNCHANGED << listeners, raceArmed >>
     \/ \E e \in Failures("press") :
          /\ trace' = SetErr(trace, e)
          /\ PressCatch(e, << >>)
          /\ UNCHANGED << listeners, raceArmed >>
  /\ UNCHANGED << ctx, dom, finalLocator, firstError, pos, recovered,
                  actionsDone >>
  /\ UnchangedTabs
  /\ UNCHANGED evalTasks

PressKeyDone_SubscribesBeforeFailing ==
  /\ pc = "press_wait"
  /\ \/ StartNavigation(SetErr(trace, NoError), << >>)
     \/ \E e \in Failures("press") :
          /\ trace' = Append(SetErr(trace, e),
                             Call("once", "context", "page", NoError))
          /\ PressCatch(e, << >>)
          /\ listeners' = listeners + 1
          /\ UNCHANGED raceArmed
  /\ UNCHANGED << ctx, dom, finalLocator, firstError, pos, recovered,
                  actionsDone >>
  /\ UnchangedTabs
  /\ UNCHANGED evalTasks

\* lines 297-306: the key press is done
PressKeyDone ==
  /\ pc = "press_wait"
  /\ \/ StartNavigation(SetErr(trace, NoError), << >>)
     \/ \E e \in Failures("press") :
          /\ trace' = SetErr(trace, e)
          /\ PressCatch(e, << >>)
          /\ UNCHANGED << listeners, raceArmed >>
  /\ UNCHANGED << ctx, dom, finalLocator, firstError, pos, recovered,
                  actionsDone >>
  /\ UnchangedTabs
  /\ UNCHANGED evalTasks

----------------------------------------------------------------------------
(* handlePossiblePageNavigation *)

\* An error thrown inside handlePossiblePageNavigation: pressKey calls it
\* inside its try block (line 299), clickElement after its catch (line 442).
NavigationThrow(e, lg) ==
  IF Handler = "pressKey" THEN PressCatch(e, lg) ELSE Throw(e, lg)

RaceLog(tab) ==
  LogRec(<< ActionDescription, " complete" >>, 1,
         [newOpenedTab |-> IF tab # NoTab THEN "opened a new tab"
                           ELSE "no new tabs opened"])

NewPage_LateEventWins ==
  /\ Interacted
  /\ tabsOpened < MaxTabs
  /\ LET tab == Tab(tabsOpened + 1)
     IN /\ tabsOpened' = tabsOpened + 1
        /\ openTabs' = openTabs \cup { tab }
        /\ actionTabs' = actionTabs \cup { tab }
        /\ listeners' = 0
        /\ IF pc \in { "nav_race", "nav_settle" }
           THEN /\ newOpenedTab' = tab
                /\ raceArmed' = FALSE
                /\ pc' = "nav_close"
                /\ logs' = Append(logs, RaceLog(tab))
           ELSE UNCHANGED << newOpenedTab, raceArmed, pc, logs >>
  /\ UNCHANGED << ctx, dom, finalLocator, firstError, pos, trace, result,
                  thrown, recovered, pageUrl, loadState, domSettled,
                  actionsDone >>
  /\ UNCHANGED evalTasks

\* The context emits "page": every once-listener runs and is removed; the
\* listener of a running race resolves it with the page (lines 509, 514-524).
NewPage ==
  /\ Interacted
  /\ tabsOpened < MaxTabs
  /\ LET tab == Tab(tabsOpened + 1)
     IN /\ tabsOpened' = tabsOpened + 1
        /\ openTabs' = openTabs \cup { tab }
        /\ actionTabs' = actionTabs \cup { tab }
        /\ listeners' = 0
        /\ IF pc = "nav_race" /\ raceArmed
           THEN /\ newOpenedTab' = tab
                /\ raceArmed' = FALSE
                /\ pc' = "nav_close"
                /\ logs' = Append(logs, RaceLog(tab))
           ELSE UNCHANGED << newOpenedTab, raceArmed, pc, logs >>
  /\ UNCHANGED << ctx, dom, finalLocator, firstError, pos, trace, result,
                  thrown, recovered, pageUrl, loadState, domSettled,
                  actionsDone >>
  /\ UNCHANGED evalTasks

\* line 510: the timer fires first; the "page" listener stays registered
NavTimer ==
  /\ pc = "nav_race"
  /\ raceArmed
  /\ newOpenedTab' = NoTab
  /\ raceArmed' = FALSE
  /\ pc' = "nav_settle"
  /\ logs' = Append(logs, RaceLog(NoTab))
  /\ UNCHANGED << ctx, dom, finalLocator, firstError, pos, trace, result,
                  thrown, recovered, listeners, openTabs, tabsOpened,
                  actionTabs, pageUrl, loadState, domSettled, actionsDone >>
  /\ UNCHANGED evalTasks

AfterClose_KeepsTab(tabs, tab) == tabs

\* line 535: the tabs left open by newOpenedTab.close()
AfterClose(tabs, tab) == tabs \ { tab }

GotoTarget_StaysPut(tab) == pageUrl

\* line 536: the address the original page is sent to, newOpenedTab.url()
GotoTarget(tab) == TabUrl(tab)

NavClose_GotoFirst ==
  /\ pc = "nav_close"
  /\ LET lg == << LogRec(<< "new page detected (new tab) with URL" >>, 1,
                         [url |-> TabUrl(newOpenedTab)]) >>
     IN /\ trace' = trace \o
             << Call("goto", "page", GotoTarget(newOpenedTab), NoError),
                Call("close", newOpenedTab, "", NoError) >>
        /\ openTabs' = AfterClose(openTabs, newOpenedTab)
        /\ pageUrl' = GotoTarget(newOpenedTab)
        /\ pc' = "nav_load"
        /\ logs' = logs \o lg
        /\ UNCHANGED << result, thrown >>
  /\ UNCHANGED << ctx, dom, finalLocator, firstError, pos, recovered,
                  newOpenedTab, raceArmed, listeners, tabsOpened, actionTabs,
                  loadState, domSettled, actionsDone >>
  /\ UNCHANGED evalTasks

\* lines 526-535: await newOpenedTab.close()
NavClose ==
  /\ pc = "nav_close"
  /\ LET lg == << LogRec(<< "new page detected (new tab) with URL" >>, 1,
                         [url |-> TabUrl(newOpenedTab)]) >>
     IN \/ /\ trace' = Append(trace, Call("close", newOpenedTab, "", NoError))
           /\ openTabs' = AfterClose(openTabs, newOpenedTab)
           /\ pc' = "nav_goto"
           /\ logs' = logs \o lg
           /\ UNCHANGED << result, thrown >>
        \/ \E e \in Failures("close") :
             /\ trace' = Append(trace, Call("close", newOpenedTab, "", e))
             /\ NavigationThrow(e, lg)
             /\ UNCHANGED openTabs
  /\ UNCHANGED << ctx, dom, finalLocator, firstError, pos, recovered,
                  newOpenedTab, raceArmed, listeners, tabsOpened, actionTabs,
                  pageUrl, loadState, domSettled, actionsDone >>
  /\ UNCHANGED evalTasks

\* line 536: await stagehandPage.page.goto(newOpenedTab.url())
NavGoto ==
  /\ pc = "nav_goto"
  /\ \/ /\ trace' = Append(trace,
                      Call("goto", "page", GotoTarget(newOpenedTab), NoError))
        /\ pageUrl' = GotoTarget(newOpenedTab)
        /\ loadState' = "load"
        /\ domSettled' \in BOOLEAN
        /\ pc' = "nav_load"
        /\ UNCHANGED << logs, result, thrown >>
     \/ \E e \in Failures("goto") :
          /\ trace' = Append(trace,
                        Call("goto", "page", GotoTarget(newOpenedTab), e))
          /\ NavigationThrow(e, << >>)
          /\ UNCHANGED << pageUrl, loadState, domSettled >>
  /\ UNCHANGED << ctx, dom, finalLocator, firstError, pos, recovered,
                  newOpenedTab, raceArmed, listeners, openTabs, tabsOpened,
                  actionTabs, actionsDone >>
  /\ UNCHANGED evalTasks

\* line 537: await stagehandPage.page.waitForLoadState("domcontentloaded")
NavLoad ==
  /\ pc = "nav_load"
  /\ \/ /\ trace' = Append(trace, Call("waitForLoadState", "page",
                                       "domcontentloaded", NoError))
        /\ pc' = "nav_settle"
        /\ UNCHANGED << logs, result, thrown >>
     \/ \E e \in Failures("waitForLoadState") :
          /\ trace' = Append(trace, Call("waitForLoadState", "page",
                                         "domcontentloaded", e))
          /\ NavigationThrow(e, << >>)
  /\ UNCHANGED << ctx, dom, finalLocator, firstError, pos, recovered,
                  newOpenedTab, raceArmed, listeners, openTabs, tabsOpened,
                  actionTabs, pageUrl, loadState, domSettled, actionsDone >>
  /\ UNCHANGED evalTasks

\* lines 554-569: the closing log entries
FinishedLogs ==
  << LogRec(<< "finished waiting for (possible) page navigation" >>, 1, NoAux) >>
  \o IF pageUrl # ctx.initialUrl
     THEN << LogRec(<< "new page detected with URL" >>, 1, [url |-> pageUrl]) >>
     ELSE << >>

SettleCatch_Rethrows(e) ==
  NavigationThrow(e, << LogRec(<< "wait for settled DOM timeout hit" >>, 1,
                               [trace |-> Stack(e), message |-> e.message]) >>)

\* lines 542-552 and 554-570: the catch around _waitForSettledDom logs the
\* error and lets the function run to its end
SettleCatch(e) ==
  Return(<< LogRec(<< "wait for settled DOM timeout hit" >>, 1,
                   [trace |-> Stack(e), message |-> e.message]) >>
         \o FinishedLogs)

\* lines 540-570: wait for the DOM to settle
NavSettle ==
  /\ pc = "nav_settle"
  /\ \/ /\ trace' = Append(trace, Call("_waitForSettledDom", "page",
                                       ctx.domSettleTimeoutMs, NoError))
        /\ domSettled' = TRUE
        /\ Return(FinishedLogs)
        /\ UNCHANGED recovered
     \/ \E e \in Failures("_waitForSettledDom") :
          /\ trace' = Append(trace, Call("_waitForSettledDom", "page",
                                         ctx.domSettleTimeoutMs, e))
          /\ recovered' = recovered \cup { "settle" }
          /\ SettleCatch(e)
          /\ UNCHANGED domSettled
  /\ UNCHANGED << ctx, dom, finalLocator, firstError, pos, newOpenedTab,
                  raceArmed, listeners, openTabs, tabsOpened, actionTabs,
                  pageUrl, loadState, actionsDone >>
  /\ UNCHANGED evalTasks

\* The page reacts to the interaction: its DOM starts to change.
PageActivity ==
  /\ Interacted
  /\ domSettled
  /\ domSettled' = FALSE
  /\ UNCHANGED << pc, ctx, dom, finalLocator, firstError, pos, trace, logs,
                  result, thrown, recovered, newOpenedTab, raceArmed,
                  listeners, openTabs, tabsOpened, actionTabs, pageUrl,
                  loadState, actionsDone >>
  /\ UNCHANGED evalTasks

----------------------------------------------------------------------------
(* fillOrType, scrollElementIntoView, fallbackLocatorMethod *)

\* the catch block shared in shape by every handler but clickElement and
\* pressKey: log error, trace, xpath (and more), throw the exception
HandlerCatch(message, e, more, lg) ==
  Throw(PlaywrightCommandException(e.message),
        lg \o << LogRec(message, 1,
                   Spread([error |-> e.message, trace |-> Stack(e),
                           xpath |-> << ctx.xpath >>], more)) >>)

FillCatch(e) == HandlerCatch(<< "error filling element" >>, e, NoAux, << >>)

FillText_DropsLast(args) ==
  IF Len(args) = 0 \/ args[1].t = "null" THEN << >>
  ELSE SubSeq(toString(args[1]), 1, Len(toString(args[1])) - 1)

\* const text = args[0]?.toString() || ""
FillText(args) ==
  IF Len(args) = 0 \/ args[1].t = "null" THEN << >> ELSE toString(args[1])

\* Math.random(), in hundredths
RandomSamples == { 0, 99 }

\* Math.random() * 50 + 25, in hundredths
KeyDelay(r) == r * 50 + 25 * 100

\* line 261: await locator.fill("")
FillClear ==
  /\ pc = "fill"
  /\ \/ /\ trace' = Append(trace, Call("fill", Self, << >>, NoError))
        /\ pc' = "fill_click"
        /\ UNCHANGED << logs, result, thrown >>
     \/ \E e \in Failures("fill") :
          /\ trace' = Append(trace, Call("fill", Self, << >>, e))
          /\ FillCatch(e)
  /\ UNCHANGED << ctx, dom, finalLocator, firstError, pos, recovered,
                  actionsDone >>
  /\ UnchangedPage
  /\ UNCHANGED evalTasks

\* line 262: await locator.click(); with no text the handler is finished
FillClick ==
  /\ pc = "fill_click"
  /\ \/ /\ trace' = Append(trace, Call("click", Self, EmptyOptions, NoError))
        /\ IF Len(FillText(ctx.args)) = 0
           THEN Return(<< >>)
           ELSE /\ pc' = "fill_type"
                /\ UNCHANGED << logs, result, thrown >>
     \/ \E e \in Failures("focus-click") :
          /\ trace' = Append(trace, Call("click", Self, EmptyOptions, e))
          /\ FillCatch(e)
  /\ UNCHANGED << ctx, dom, finalLocator, firstError, pos, recovered,
                  actionsDone >>
  /\ UnchangedPage
  /\ UNCHANGED evalTasks

\* lines 265-269: one turn of the loop over the characters of text
FillType ==
  /\ pc = "fill_type"
  /\ pos < Len(FillText(ctx.args))
  /\ \E r \in RandomSamples :
       LET char == FillText(ctx.args)[pos + 1]
           opts == [delay |-> KeyDelay(r)]
       IN \/ /\ trace' = Append(trace,
                           Call("type", "keyboard", << char, opts >>, NoError))
             /\ pos' = pos + 1
             /\ IF pos + 1 = Len(FillText(ctx.args))
                THEN Return(<< >>)
                ELSE UNCHANGED << pc, logs, result, thrown >>
          \/ \E e \in Failures("type") :
               /\ trace' = Append(trace,
                             Call("type", "keyboard", << char, opts >>, e))
               /\ FillCatch(e)
               /\ UNCHANGED pos
  /\ UNCHANGED << ctx, dom, finalLocator, firstError, recovered, actionsDone >>
  /\ UnchangedPage
  /\ UNCHANGED evalTasks

\* lines 155-184
ScrollIntoView ==
  /\ pc = "intoView"
  /\ LET lg == << LogRec(<< "scrolling element into view" >>, 2,
                         [xpath |-> << ctx.xpath >>]) >>
     IN \/ /\ trace' = Append(trace,
                         Call("evaluate", Self, "scrollIntoView", NoError))
           /\ Return(lg)
        \/ \E e \in Failures("scrollIntoView") :
             /\ trace' = Append(trace,
                           Call("evaluate", Self, "scrollIntoView", e))
             /\ HandlerCatch(<< "error scrolling element into view" >>, e, NoAux, lg)
  /\ UNCHANGED << ctx, dom, finalLocator, firstError, pos, recovered,
                  actionsDone >>
  /\ UnchangedPage
  /\ UNCHANGED evalTasks

FallbackArgs_NullAsText(args) ==
  [i \in DOMAIN args |->
     IF args[i].t = "null" THEN << "n", "u", "l", "l" >> ELSE toString(args[i])]

\* args.map((arg) => arg?.toString() || "")
FallbackArgs(args) ==
  [i \in DOMAIN args |->
     IF args[i].t = "null" THEN << >> ELSE toString(args[i])]

FallbackCatch(e, lg) ==
  HandlerCatch(<< "error performing method" >>, e,
               [method |-> << ctx.method >>, args |-> JSONstringify(ctx.args)],
               lg)

\* locator[method] is not a function
NotAFunction(m) ==
  [name |-> "TypeError", message |-> << "locator[", m, "] is not a function" >>]

\* lines 458-472: log the URL and call locator[method](...); a method the
\* locator does not have makes the call itself throw
FallbackCall ==
  /\ pc = "fallback"
  /\ LET lg == << LogRec(<< "page URL before action" >>, 2, [url |-> pageUrl]) >>
     IN IF ctx.method \in LocatorMethods
        THEN /\ trace' = Append(trace, Call("invoke", ctx.method,
                                            FallbackArgs(ctx.args), Pending))
             /\ pc' = "fallback_wait"
             /\ logs' = logs \o lg
             /\ UNCHANGED << result, thrown >>
        ELSE /\ FallbackCatch(NotAFunction(ctx.method), lg)
             /\ UNCHANGED trace
  /\ UNCHANGED << ctx, dom, finalLocator, firstError, pos, recovered,
                  actionsDone >>
  /\ UnchangedPage
  /\ UNCHANGED evalTasks

\* lines 468-487: the promise of the call is fulfilled or rejected
FallbackSettle ==
  /\ pc = "fallback_wait"
  /\ \/ /\ Return(<< >>)
        /\ trace' = SetErr(trace, NoError)
     \/ \E e \in Failures("invoke") :
          /\ trace' = SetErr(trace, e)
          /\ FallbackCatch(e, << >>)
  /\ UNCHANGED << ctx, dom, finalLocator, firstError, pos, recovered,
                  actionsDone >>
  /\ UnchangedPage
  /\ UNCHANGED evalTasks

----------------------------------------------------------------------------
(* scrollToNextChunk, scrollToPreviousChunk, scrollElementToPercentage *)

\* a number has one value however it was computed: fractions are kept in
\* lowest terms
RECURSIVE Gcd(_, _)
Gcd(a, b) == IF b = 0 THEN a ELSE Gcd(b, a % b)
Norm(r) ==
  LET g == Gcd(IF r.n < 0 THEN 0 - r.n ELSE r.n, r.d)
  IN Rat(r.n \div g, r.d \div g)

RatLE(a, b) == a.n * b.d <= b.n * a.d
RatAdd(a, b) == Rat(a.n * b.d + b.n * a.d, a.d * b.d)
RatMax(a, b) == IF RatLE(a, b) THEN b ELSE a
RatMin(a, b) == IF RatLE(a, b) THEN a ELSE b

\* the browser keeps a scroll offset within the scrollable range
ClampOffset(x, range) == RatMax(Rat(0, 1), RatMin(x, Rat(range, 1)))

WindowRange(l) == l.bodyScrollHeight - l.innerHeight
ElementRange(l) == l.scrollHeight - l.clientHeight

\* window.scrollBy({ top, left }) / window.scrollTo({ top, left })
WindowScrollBy(l, top, left) ==
  [l EXCEPT !.scrollY = ClampOffset(RatAdd(@, top), WindowRange(l)),
            !.scrollX = @ + left]
WindowScrollTo(l, top, left) ==
  [l EXCEPT !.scrollY = ClampOffset(top, WindowRange(l)), !.scrollX = left]

\* element.scrollBy({ top, left }) / element.scrollTo({ top, left })
ElementScrollBy(l, top, left) ==
  [l EXCEPT !.scrollTop = ClampOffset(RatAdd(@, top), ElementRange(l)),
            !.scrollLeft = @ + left]
ElementScrollTo(l, top, left) ==
  [l EXCEPT !.scrollTop = ClampOffset(top, ElementRange(l)),
            !.scrollLeft = left]

ElementFound_Always(d) == TRUE

\* lines 44, 108, 211: elementNode && elementNode.nodeType === ELEMENT_NODE
ElementFound(d) == d.resolved

\* lines 50-54, 65 and 114-118, 129: whose height a chunk is
IsChunkRoot(d) == d.tagName \in { "html", "body" }
ChunkHeight_AlwaysViewport(d) == d.layout.viewportHeight

ChunkHeight(d) ==
  IF IsChunkRoot(d) THEN d.layout.viewportHeight ELSE d.layout.boundingHeight

\* lines 56, 67 (top: height) and 120, 131 (top: -height)
ChunkTop(h, d) ==
  IF h = "scrollToNextChunk" THEN ChunkHeight(d) ELSE 0 - ChunkHeight(d)

ChunkName == IF Handler = "scrollToNextChunk" THEN "next" ELSE "previous"

ChunkCatch(e, lg) ==
  HandlerCatch(<< "error scrolling to ", ChunkName, " chunk" >>, e, NoAux, lg)

ScrollChunk_NotWaiting ==
  /\ pc = "chunk"
  /\ LET lg == << LogRec(<< "scrolling to ", ChunkName, " chunk" >>, 2,
                         [xpath |-> << ctx.xpath >>]) >>
         top == ChunkTop(Handler, dom)
         opts == [top |-> Rat(top, 1), left |-> 0, behavior |-> "smooth"]
     IN \/ /\ ~ElementFound(dom)
           /\ trace' = Append(trace,
                         Call("getNodeFromXpath", ctx.xpath, "", NoError))
           /\ recovered' = recovered \cup { "element not found" }
           /\ Return(lg)
           /\ UNCHANGED dom
        \/ /\ ElementFound(dom)
           /\ trace' = trace \o
                << Call("getNodeFromXpath", ctx.xpath, "", NoError),
                   Call("scrollBy",
                        IF IsChunkRoot(dom) THEN "window" ELSE "element",
                        opts, NoError) >>
           /\ dom' = [dom EXCEPT !.layout =
                        IF IsChunkRoot(dom)
                        THEN WindowScrollBy(@, Rat(top, 1), 0)
                        ELSE ElementScrollBy(@, Rat(top, 1), 0)]
           /\ Return(lg)
           /\ UNCHANGED recovered
        \/ \E e \in Failures("evaluate") :
             /\ trace' = Append(trace,
                           Call("getNodeFromXpath", ctx.xpath, "", e))
             /\ ChunkCatch(e, lg)
             /\ UNCHANGED << dom, recovered >>
  /\ UNCHANGED << ctx, finalLocator, firstError, pos, actionsDone >>
  /\ UnchangedPage
  /\ UNCHANGED evalTasks

\* lines 31-73 and 95-136: find the element and scroll by one chunk
ScrollChunk ==
  /\ pc = "chunk"
  /\ LET lg == << LogRec(<< "scrolling to ", ChunkName, " chunk" >>, 2,
                         [xpath |-> << ctx.xpath >>]) >>
         top == ChunkTop(Handler, dom)
         opts == [top |-> Rat(top, 1), left |-> 0, behavior |-> "smooth"]
     IN \/ /\ ~ElementFound(dom)
           /\ trace' = Append(trace,
                         Call("getNodeFromXpath", ctx.xpath, "", NoError))
           /\ recovered' = recovered \cup { "element not found" }
           /\ Return(lg)
           /\ UNCHANGED dom
        \/ /\ ElementFound(dom)
           /\ trace' = trace \o
                << Call("getNodeFromXpath", ctx.xpath, "", NoError),
                   Call("scrollBy",
                        IF IsChunkRoot(dom) THEN "window" ELSE "element",
                        opts, NoError) >>
           /\ dom' = [dom EXCEPT !.layout =
                        IF IsChunkRoot(dom)
                        THEN WindowScrollBy(@, Rat(top, 1), 0)
                        ELSE ElementScrollBy(@, Rat(top, 1), 0)]
           /\ pc' = "chunk_wait"
           /\ logs' = logs \o lg
           /\ UNCHANGED << result, thrown, recovered >>
        \/ \E e \in Failures("evaluate") :
             /\ trace' = Append(trace,
                           Call("getNodeFromXpath", ctx.xpath, "", e))
             /\ ChunkCatch(e, lg)
             /\ UNCHANGED << dom, recovered >>
  /\ UNCHANGED << ctx, finalLocator, firstError, pos, actionsDone >>
  /\ UnchangedPage
  /\ UNCHANGED evalTasks

\* lines 61-63, 72 and 125-127, 135: window.waitForElementScrollEnd(...)
ScrollEnd ==
  /\ pc = "chunk_wait"
  /\ LET on == IF IsChunkRoot(dom) THEN "scrollingElement" ELSE "element"
     IN \/ /\ trace' = Append(trace,
                         Call("waitForElementScrollEnd", on, "", NoError))
           /\ Return(<< >>)
        \/ \E e \in Failures("waitForElementScrollEnd") :
             /\ trace' = Append(trace,
                           Call("waitForElementScrollEnd", on, "", e))
             /\ ChunkCatch(e, << >>)
  /\ UNCHANGED << ctx, dom, finalLocator, firstError, pos, recovered,
                  actionsDone >>
  /\ UnchangedPage
  /\ UNCHANGED evalTasks

\* String.prototype.trim over the characters of the model
Trim(str) ==
  LET keep == { i \in DOMAIN str : str[i] # " " }
  IN IF keep = {} THEN << >>
     ELSE LET lo == CHOOSE i \in keep : \A j \in keep : i <= j
              hi == CHOOSE i \in keep : \A j \in keep : j <= i
          IN SubSeq(str, lo, hi)

\* str.replace(c, ""): the first occurrence only
RemoveFirst(str, c) ==
  LET at == { i \in DOMAIN str : str[i] = c }
  IN IF at = {} THEN str
     ELSE LET k == CHOOSE i \in at : \A j \in at : i <= j
          IN SubSeq(str, 1, k - 1) \o SubSeq(str, k + 1, Len(str))

Digits == { "0", "1", "2", "3", "4", "5", "6", "7", "8", "9" }

DigitValue(c) ==
  CASE c = "0" -> 0 [] c = "1" -> 1 [] c = "2" -> 2 [] c = "3" -> 3
    [] c = "4" -> 4 [] c = "5" -> 5 [] c = "6" -> 6 [] c = "7" -> 7
    [] c = "8" -> 8 [] c = "9" -> 9

\* length of the longest run of digits of str that starts at index from
DigitRun(str, from) ==
  LET stops == { i \in from..Len(str) : str[i] \notin Digits }
  IN IF stops = {} THEN Len(str) - from + 1
     ELSE (CHOOSE i \in stops : \A j \in stops : i <= j) - from

RECURSIVE DigitsValue(_)
DigitsValue(ds) ==
  IF Len(ds) = 0 THEN 0
  ELSE 10 * DigitsValue(SubSeq(ds, 1, Len(ds) - 1)) + DigitValue(ds[Len(ds)])

RECURSIVE Pow10(_)
Pow10(k) == IF k = 0 THEN 1 ELSE 10 * Pow10(k - 1)

NaN == [nan |-> TRUE, val |-> Rat(0, 1)]
Num(r) == [nan |-> FALSE, val |-> r]

\* parseFloat: leading blanks, a sign, digits, a point and digits; what
\* follows is ignored; no digit at all gives NaN.  (Exponents and Infinity
\* are outside the alphabet of PercentStrings.)
parseFloat(str) ==
  LET t == LET keep == { i \in DOMAIN str : str[i] # " " }
           IN IF keep = {} THEN << >>
              ELSE SubSeq(str, CHOOSE i \in keep : \A j \in keep : i <= j,
                          Len(str))
      signed == Len(t) > 0 /\ t[1] \in { "-", "+" }
      body == IF signed THEN SubSeq(t, 2, Len(t)) ELSE t
      sign == IF signed /\ t[1] = "-" THEN 0 - 1 ELSE 1
      intLen == DigitRun(body, 1)
      hasPoint == Len(body) > intLen /\ body[intLen + 1] = "."
      fracLen == IF hasPoint THEN DigitRun(body, intLen + 2) ELSE 0
      int == DigitsValue(SubSeq(body, 1, intLen))
      frac == DigitsValue(SubSeq(body, intLen + 2, intLen + 1 + fracLen))
  IN IF intLen + fracLen = 0 THEN NaN
     ELSE Num(Rat(sign * (int * Pow10(fracLen) + frac), Pow10(fracLen)))

parsePercent_NoUpperClamp(val) ==
  LET cleaned == RemoveFirst(Trim(val), "%")
      num == parseFloat(cleaned)
  IN IF num.nan THEN Rat(0, 1) ELSE RatMax(Rat(0, 1), num.val)

\* lines 204-208
parsePercent(val) ==
  LET cleaned == RemoveFirst(Trim(val), "%")
      num == parseFloat(cleaned)
  IN IF num.nan THEN Rat(0, 1)
     ELSE RatMax(Rat(0, 1), RatMin(num.val, Rat(100, 1)))

\* const [yArg = "0%"] = args
YArg(args) == IF Len(args) = 0 THEN << "0", "%" >> ELSE args[1].v

\* lines 219-222, 229-231: (scrollHeight - viewportHeight) * (yPct / 100)
IsPercentRoot(d) == d.tagName = "html"
PercentRange_BodyIsRoot(d) ==
  IF d.tagName \in { "html", "body" }
  THEN d.layout.bodyScrollHeight - d.layout.innerHeight
  ELSE d.layout.scrollHeight - d.layout.clientHeight

PercentRange(d) ==
  IF IsPercentRoot(d) THEN d.layout.bodyScrollHeight - d.layout.innerHeight
  ELSE d.layout.scrollHeight - d.layout.clientHeight
PercentTop(d, yPct) ==
  Norm(Rat(PercentRange(d) * Norm(yPct).n, Norm(yPct).d * 100))

PercentLeft_Zero(d) == 0

\* lines 225, 234: left: window.scrollX / left: element.scrollLeft
PercentLeft(d) ==
  IF IsPercentRoot(d) THEN d.layout.scrollX ELSE d.layout.scrollLeft

PercentCatch(e, lg) ==
  HandlerCatch(<< "error scrolling element vertically to percentage" >>, e,
               [args |-> JSONstringify(ctx.args)], lg)

\* lines 186-255
ScrollPercent ==
  /\ pc = "percent"
  /\ LET lg == << LogRec(<< "scrolling element vertically to specified percentage" >>,
                         2, [xpath |-> << ctx.xpath >>,
                             coordinate |-> JSONstringify(ctx.args)]) >>
         top == PercentTop(dom, parsePercent(YArg(ctx.args)))
         left == PercentLeft(dom)
         opts == [top |-> top, left |-> left, behavior |-> "smooth"]
     IN \/ /\ ~ElementFound(dom)
           /\ trace' = Append(trace,
                         Call("getNodeFromXpath", ctx.xpath, "", NoError))
           /\ recovered' = recovered \cup { "element not found" }
           /\ Return(lg)
           /\ UNCHANGED dom
        \/ /\ ElementFound(dom)
           /\ trace' = trace \o
                << Call("getNodeFromXpath", ctx.xpath, "", NoError),
                   Call("scrollTo",
                        IF IsPercentRoot(dom) THEN "window" ELSE "element",
                        opts, NoError) >>
           /\ dom' = [dom EXCEPT !.layout =
                        IF IsPercentRoot(dom) THEN WindowScrollTo(@, top, left)
                        ELSE ElementScrollTo(@, top, left)]
           /\ Return(lg)
           /\ UNCHANGED recovered
        \/ \E e \in Failures("evaluate") :
             /\ trace' = Append(trace,
                           Call("getNodeFromXpath", ctx.xpath, "", e))
             /\ PercentCatch(e, lg)
             /\ UNCHANGED << dom, recovered >>
  /\ UNCHANGED << ctx, finalLocator, firstError, pos, actionsDone >>
  /\ UnchangedPage
  /\ UNCHANGED evalTasks

----------------------------------------------------------------------------

Next ==
  \/ Dispatch
  \/ Discard
  \/ ClickIsRadio
  \/ ClickLabel
  \/ ClickFirst
  \/ ClickFirstDone
  \/ ClickForced
  \/ ClickForcedDone
  \/ PressKey
  \/ PressKeyDone
  \/ FillClear
  \/ FillClick
  \/ FillType
  \/ ScrollIntoView
  \/ FallbackCall
  \/ FallbackSettle
  \/ ScrollChunk
  \/ ScrollEnd
  \/ ScrollPercent
  \/ NewPage
  \/ NavTimer
  \/ NavClose
  \/ NavGoto
  \/ NavLoad
  \/ NavSettle
  \/ PageActivity

Spec == Init /\ [][Next]_vars

\* scrollElementToPercentage on its own, called with any percentage string:
\* the state after the caller has built the context of a scrollTo action
PercentInit ==
  /\ pc = "percent"
  /\ \E x \in XPaths, st \in SettleTimeouts :
       \E a \in { << >> } \cup { << Str(t) >> : t \in PercentInputs } :
         ctx = [method |-> "scrollTo", xpath |-> x, args |-> a,
                initialUrl |-> InitialUrl, domSettleTimeoutMs |-> st]
  /\ dom \in ScrollDoms
  /\ finalLocator = NoLocator
  /\ firstError = NoError
  /\ pos = 0
  /\ trace = << >>
  /\ logs = << >>
  /\ result = "pending"
  /\ thrown = NoError
  /\ recovered = {}
  /\ newOpenedTab = NoTab
  /\ raceArmed = FALSE
  /\ listeners = 0
  /\ openTabs = {}
  /\ tabsOpened = 0
  /\ actionTabs = {}
  /\ pageUrl = InitialUrl
  /\ loadState = "load"
  /\ domSettled = TRUE
  /\ actionsDone = 1
  /\ evalTasks = QueuedTasks

PercentSpec == PercentInit /\ [][ScrollPercent]_vars

\* one awaited step of clickElement or pressKey, the watcher included
WatchedStep ==
  \/ ClickIsRadio \/ ClickLabel \/ ClickFirst \/ ClickFirstDone \/ ClickForced
  \/ ClickForcedDone \/ PressKey \/ PressKeyDone
  \/ NavClose \/ NavGoto \/ NavLoad \/ NavSettle

\* Every call awaited by clickElement, pressKey and the watcher is eventually
\* fulfilled or rejected, and the timer of the race (line 510) eventually
\* fires unless the race is decided before.
FairSpec == Spec /\ WF_vars(WatchedStep) /\ WF_vars(NavTimer)

----------------------------------------------------------------------------
(* The evaluation runner: the task of one testcase                         *)

\* What a throw statement or a rejected promise can carry.  `own` is the set
\* of own enumerable properties of the value: message and stack of an Error
\* are not enumerable.  `circular` says that an enumerable property leads
\* back to the value itself (an error that holds its request, whose response
\* holds the error).
ErrorObject ==
  [type |-> "Error", nullish |-> FALSE, own |-> {}, circular |-> FALSE]
ErrorWithCode ==
  [type |-> "Error", nullish |-> FALSE, own |-> {"code"}, circular |-> FALSE]
CircularError ==
  [type |-> "Error", nullish |-> FALSE, own |-> {"request"}, circular |-> TRUE]
Undefined ==
  [type |-> "undefined", nullish |-> TRUE, own |-> {}, circular |-> FALSE]

ThrownValues == { ErrorObject, ErrorWithCode, CircularError, Undefined }

\* new StagehandEvalError(...) of line 261, an Error object
StagehandEvalError == ErrorObject

\* JSON.parse(JSON.stringify(error, null, 2)) of line 358 for an object that
\* JSON.stringify accepts: the own enumerable properties survive, the type,
\* the message and the stack do not.
JSONRoundTrip(error) == error.own

\* The catch block (lines 339-361) entered by task k with the value thrown.
\* Line 347 reads error.message, which throws a TypeError when the value is
\* null or undefined; line 358 serialises the value, which throws a TypeError
\* when it is circular.  An error thrown inside the catch block rejects the
\* promise of the task.
Catch(k, error) ==
  IF error.nullish
    THEN [k EXCEPT !.pc = "done", !.raised = TRUE, !.pending = NoThrow,
                   !.escaped = "TypeError"]
    ELSE LET collected == Append(k.logs, "Error in task") IN
         IF error.circular
           THEN [k EXCEPT !.pc = "done", !.raised = TRUE, !.pending = NoThrow,
                          !.logs = collected, !.escaped = "TypeError"]
           ELSE [k EXCEPT !.pc = "done", !.raised = TRUE, !.pending = NoThrow,
                          !.logs = collected,
                          !.result = [from |-> "catch", success |-> FALSE,
                                      error |-> JSONRoundTrip(error),
                                      logs |-> collected]]

\* what a task function resolves to
TaskResults ==
  { [from |-> "taskFunction", success |-> b, error |-> {}, logs |-> << >>] :
      b \in BOOLEAN }

\* The runner calls the task of a testcase, which creates its logger
\* (line 247) and starts to import the task module.
TaskStart ==
  /\ \E t \in Testcases :
       /\ evalTasks[t].pc = "queued"
       /\ evalTasks' = [evalTasks EXCEPT ![t].pc = "import"]
  /\ UNCHANGED handlerVars

\* Lines 255-264: the import resolves or rejects; a module that does not
\* export a function of the name of the task throws StagehandEvalError.
TaskImport ==
  /\ \E t \in Testcases :
       /\ evalTasks[t].pc = "import"
       /\ \/ evalTasks' = [evalTasks EXCEPT ![t].pc = "init"]
          \/ evalTasks' =
               [evalTasks EXCEPT ![t] = Catch(@, StagehandEvalError)]
          \/ \E e \in ThrownValues :
               evalTasks' = [evalTasks EXCEPT ![t] = Catch(@, e)]
  /\ UNCHANGED handlerVars

\* Line 321: initStagehand resolves with the session, which logs to the
\* logger of the task, or rejects.
TaskInitStagehand ==
  /\ \E t \in Testcases :
       /\ evalTasks[t].pc = "init"
       /\ \/ evalTasks' =
               [evalTasks EXCEPT ![t].pc = "run", ![t].initialised = TRUE,
                                 ![t].logs = Append(@, "init")]
          \/ \E e \in ThrownValues :
               evalTasks' = [evalTasks EXCEPT ![t] = Catch(@, e)]
  /\ UNCHANGED handlerVars

\* Line 328: the task function resolves with its result or rejects; either
\* way the finally block (line 335) runs next.
TaskFunction ==
  /\ \E t \in Testcases :
       /\ evalTasks[t].pc = "run"
       /\ \/ \E r \in TaskResults :
               evalTasks' = [evalTasks EXCEPT ![t].pc = "close",
                                              ![t].result = r]
          \/ \E e \in ThrownValues :
               evalTasks' = [evalTasks EXCEPT ![t].pc = "close",
                                              ![t].raised = TRUE,
                                              ![t].pending = e]
  /\ UNCHANGED handlerVars

\* Lines 336-338: stagehand.close() resolves, and the task returns the result
\* or the catch block receives the error of the task function; or it
\* rejects, and the catch block receives the error of close() whatever the
\* task function did.
TaskClose ==
  /\ \E t \in Testcases :
       LET k == [evalTasks[t] EXCEPT !.closeCalls = @ + 1] IN
       /\ evalTasks[t].pc = "close"
       /\ \/ /\ k.pending = NoThrow
             /\ evalTasks' = [evalTasks EXCEPT ![t] = [k EXCEPT !.pc = "done"]]
          \/ /\ k.pending # NoThrow
             /\ evalTasks' =
                  [evalTasks EXCEPT
                     ![t] = Catch([k EXCEPT !.result = NoResult], k.pending)]
          \/ \E e \in ThrownValues :
               evalTasks' =
                 [evalTasks EXCEPT
                    ![t] = Catch([k EXCEPT !.result = NoResult], e)]
  /\ UNCHANGED handlerVars

EvalNext ==
  \/ TaskStart
  \/ TaskImport
  \/ TaskInitStagehand
  \/ TaskFunction
  \/ TaskClose

\* the evaluation run: every testcase queued, no action handler running
EvalSpec == Init /\ [][EvalNext]_vars

----------------------------------------------------------------------------
(* Vocabulary of the properties *)

Returned == pc = "done" /\ result = "success"
Raised == pc = "done" /\ result = "threw"
CommandFailed == Raised /\ thrown.name = "PlaywrightCommandException"

\* a call that threw
Failed(c) == c.err \notin { NoError, Pending }

IsClickCall(c) == c.op = "click"
ClickAttempts == SelectSeq(trace, IsClickCall)

IsSettleCall(c) == c.op = "_waitForSettledDom"

Has(op) == op \in Ops(trace)
IndexOf(op) == CHOOSE i \in DOMAIN trace : trace[i].op = op
Succeeded(op) == \E i \in DOMAIN trace : trace[i].op = op /\ trace[i].err = NoError

Logged(message) == \E i \in DOMAIN logs : logs[i].message = message

WatcherOps ==
  { "once", "setTimeout", "close", "goto", "waitForLoadState",
    "_waitForSettledDom" }
TabOps == { "close", "goto", "waitForLoadState" }
ScrollOps == { "scrollBy", "scrollTo", "waitForElementScrollEnd" }
ScrollHandlers ==
  { "scrollElementToPercentage", "scrollToNextChunk", "scrollToPreviousChunk" }

----------------------------------------------------------------------------
(* C1 .. C10 *)

\* C1: in clickElement a first click that fails with a timeout is followed
\* by exactly one forced click (force = true) on the same locator and by no
\* further click, so there are at most two click attempts; if the forced
\* click fails too the action ends in a command-failed error whose message
\* holds the timeout error's message, the forced click's message and the
\* path identifier.
C1_TimeoutThenOneForcedClick ==
  Handler = "clickElement" =>
    LET a == ClickAttempts
    IN /\ Len(a) <= 2
       /\ Len(a) = 2 => a[1].err.name = "TimeoutError"
       /\ (Len(a) >= 1 /\ a[1].err.name = "TimeoutError") =>
            /\ Len(a) = 1 => pc = "click_forced"
            /\ Len(a) = 2 => /\ a[2].arg["force"] = TRUE
                             /\ a[2].on = a[1].on
            /\ (Len(a) = 2 /\ Failed(a[2])) =>
                 /\ CommandFailed
                 /\ Contains(thrown.message, a[1].err.message)
                 /\ Contains(thrown.message, a[2].err.message)
                 /\ Contains(thrown.message, << ctx.xpath >>)

C1_Witness ==
  /\ Handler = "clickElement"
  /\ Len(ClickAttempts) = 2
  /\ ClickAttempts[1].err.name = "TimeoutError"
  /\ Failed(ClickAttempts[2])
  /\ Raised

\* C2: in clickElement a first click that fails with an error other than a
\* timeout is the only click attempt: no forced click follows, the watcher
\* does not run, and the action has ended in a command-failed error whose
\* message holds that error's message.
C2_OtherErrorFailsWithoutRetry ==
  Handler = "clickElement" =>
    LET a == ClickAttempts
    IN (Len(a) >= 1 /\ Failed(a[1]) /\ a[1].err.name # "TimeoutError") =>
         /\ Len(a) = 1
         /\ CommandFailed
         /\ Contains(thrown.message, a[1].err.message)
         /\ Ops(trace) \cap WatcherOps = {}

C2_Witness ==
  /\ Handler = "clickElement"
  /\ Len(ClickAttempts) = 1
  /\ ClickAttempts[1].err.name = "Error"
  /\ Raised

\* C3: when a click or key press returns and the "page" event won the race,
\* the new tab has been closed, then the original page sent to the tab's
\* URL, then waited into the content-loaded state; when no "page" event won
\* the race nothing is closed and the original page is not navigated.
C3_NewTabClosedAndLoaded ==
  Handler \in { "clickElement", "pressKey" } =>
    /\ (Returned /\ newOpenedTab # NoTab) =>
         /\ newOpenedTab \notin openTabs
         /\ pageUrl = TabUrl(newOpenedTab)
         /\ loadState \in { "domcontentloaded", "load" }
         /\ Succeeded("close") /\ Succeeded("goto")
         /\ Succeeded("waitForLoadState")
         /\ IndexOf("close") < IndexOf("goto")
         /\ IndexOf("goto") < IndexOf("waitForLoadState")
    /\ newOpenedTab = NoTab =>
         /\ Ops(trace) \cap TabOps = {}
         /\ Has("once") => pageUrl = ctx.initialUrl

C3_Witness ==
  /\ Handler = "clickElement"
  /\ Returned
  /\ newOpenedTab # NoTab

\* C4: a click whose settle wait fails after the click itself succeeded
\* returns success: the failure is logged and nothing is thrown, with or
\* without a new tab handled before.
C4_SettleFailureIsNotRaised ==
  Handler = "clickElement" =>
    \A i \in DOMAIN trace :
      (IsSettleCall(trace[i]) /\ Failed(trace[i])) =>
        /\ Returned
        /\ thrown = NoError
        /\ Logged(<< "wait for settled DOM timeout hit" >>)

C4_Witness ==
  /\ Handler = "clickElement"
  /\ Returned
  /\ newOpenedTab # NoTab
  /\ \E i \in DOMAIN trace : IsSettleCall(trace[i]) /\ Failed(trace[i])

\* C5 (as claimed): whatever step fails, a finished action has either
\* returned or thrown a command-failed error; no other error reaches the
\* caller.
C5_OnlyCommandFailedIsThrown ==
  pc = "done" => (result = "success" \/ thrown.name = "PlaywrightCommandException")

\* C6 (as claimed): when a handler returns success no tab opened by the
\* action is still open and the page has settled.
C6_SuccessMeansSettled ==
  Returned => (actionTabs \cap openTabs = {} /\ domSettled)

\* C6 (amended): when clickElement or pressKey returns success the race is
\* over, a tab that won it has been closed and its URL is the URL of the
\* original page, and the settle wait was the last call: the page is settled
\* if it succeeded, and its failure is logged if it did not.
C6_ClickAndPressReturnSynchronised ==
  (Returned /\ Handler \in { "clickElement", "pressKey" }) =>
    /\ ~raceArmed
    /\ newOpenedTab # NoTab =>
         (newOpenedTab \notin openTabs /\ pageUrl = TabUrl(newOpenedTab))
    /\ Len(trace) > 0
    /\ IsSettleCall(trace[Len(trace)])
    /\ trace[Len(trace)].err = NoError => domSettled
    /\ Failed(trace[Len(trace)]) =>
         Logged(<< "wait for settled DOM timeout hit" >>)

C6_Witness ==
  /\ Returned
  /\ Handler = "pressKey"
  /\ newOpenedTab # NoTab
  /\ actionTabs \cap openTabs # {}

\* the label category the claim's priority picks for a DOM
PriorityKind(d) ==
  IF ~d.isRadio THEN "self"
  ELSE IF d.inputId # << >> /\ d.forCount >= 1 THEN "for"
  ELSE IF d.ancestorCount >= 1 THEN "ancestor"
  ELSE IF d.followingCount >= 1 THEN "following"
  ELSE IF d.precedingCount >= 1 THEN "preceding"
  ELSE "self"

\* C7: every click attempt of clickElement is made on the label of the first
\* category that has a match, in the order for-label (with a non-empty id),
\* ancestor, following sibling, preceding sibling, and on the input itself
\* only when no category has one; a non-radio element is clicked itself.
C7_RadioClicksLabelByPriority ==
  Handler = "clickElement" =>
    \A i \in DOMAIN ClickAttempts :
      /\ ClickAttempts[i].on.kind = PriorityKind(dom)
      /\ ~dom.isRadio => ClickAttempts[i].on = Self
      /\ (/\ dom.isRadio
          /\ \/ (dom.inputId # << >> /\ dom.forCount >= 1)
             \/ dom.ancestorCount + dom.followingCount + dom.precedingCount >= 1)
           => ClickAttempts[i].on.kind # "self"

C7_Witness ==
  /\ Handler = "clickElement"
  /\ dom.isRadio /\ dom.forCount = 0 /\ dom.ancestorCount = 0
  /\ dom.followingCount >= 1 /\ dom.precedingCount >= 1
  /\ Len(ClickAttempts) >= 1
  /\ ClickAttempts[1].on.kind = "following"

\* C8: once a click or a key press has succeeded the watcher is started
\* (the "page" subscription is made) and a returning action has ended with
\* the settle wait; the other handlers make no call of the watcher.
C8_WatcherOnlyAfterClickAndPress ==
  /\ (/\ Handler \in { "clickElement", "pressKey" }
      /\ pc \in { "nav_race", "nav_close", "nav_goto", "nav_load",
                  "nav_settle", "done" }
      /\ \/ \E i \in DOMAIN ClickAttempts : ClickAttempts[i].err = NoError
         \/ Succeeded("press")) =>
       /\ Has("once")
       /\ Returned =>
            (Has("_waitForSettledDom")
             /\ IndexOf("once") < IndexOf("_waitForSettledDom"))
  /\ Handler \notin { "clickElement", "pressKey" } =>
       (Ops(trace) \cap WatcherOps = {} /\ ~raceArmed)

C8_Witness ==
  /\ Handler = "pressKey"
  /\ Returned
  /\ Succeeded("press")

\* the text the claim expects to be typed
ExpectedText ==
  IF Len(ctx.args) = 0 THEN << >>
  ELSE IF ctx.args[1].t = "string" THEN ctx.args[1].v ELSE << >>

\* C9: fillOrType clears, then clicks, then types the characters of the
\* first argument one by one in order (none when it is missing or empty);
\* a returned action has typed all of them, and a failed call is the last
\* call and ends the action in a command-failed error.
C9_ClearClickThenKeystrokesInOrder ==
  Handler = "fillOrType" =>
    /\ Len(trace) <= 2 + Len(ExpectedText)
    /\ \A i \in DOMAIN trace :
         /\ i = 1 => trace[i].op = "fill"
         /\ i = 2 => trace[i].op = "click"
         /\ i >= 3 => (trace[i].op = "type"
                       /\ trace[i].arg[1] = ExpectedText[i - 2])
         /\ Failed(trace[i]) => (i = Len(trace) /\ CommandFailed)
    /\ Returned => Len(trace) = 2 + Len(ExpectedText)
    /\ pc = "done" => (Returned \/ \E i \in DOMAIN trace : Failed(trace[i]))

C9_Witness ==
  /\ Handler = "fillOrType"
  /\ Returned
  /\ Len(ExpectedText) = 2
  /\ ExpectedText[1] # ExpectedText[2]
  /\ Len(trace) = 4

\* what a scroll handler does when the path identifier finds no element:
\* no scroll, no wait for the end of a scroll, no error, success
UnresolvedIsNoOp ==
  (/\ Handler \in ScrollHandlers
   /\ ~dom.resolved
   /\ Len(trace) >= 1
   /\ trace[1].op = "getNodeFromXpath" /\ trace[1].err = NoError) =>
    /\ Returned
    /\ thrown = NoError
    /\ Ops(trace) \cap ScrollOps = {}

\* C10 (as claimed): an unresolved element makes a scroll handler a no-op,
\* and that is the only failure after which any handler returns success.
C10_OnlyUnresolvedIsRecovered ==
  /\ UnresolvedIsNoOp
  /\ Returned =>
       /\ recovered \subseteq { "element not found" }
       /\ \A i \in DOMAIN trace : ~Failed(trace[i])

\* C10 (amended): an unresolved element makes a scroll handler a no-op; the
\* failures after which a handler returns success are that one, a failed
\* settle wait of the watcher, and a timeout of the first click whose forced
\* retry succeeded.
C10_RecoveredFailures ==
  /\ UnresolvedIsNoOp
  /\ Returned =>
       /\ recovered \subseteq { "element not found", "settle", "click timeout" }
       /\ "element not found" \in recovered => Handler \in ScrollHandlers
       /\ \A i \in DOMAIN trace :
            Failed(trace[i]) =>
              \/ IsSettleCall(trace[i])
              \/ /\ Handler = "clickElement"
                 /\ IsClickCall(trace[i])
                 /\ trace[i].err.name = "TimeoutError"
                 /\ i < Len(trace)
                 /\ IsClickCall(trace[i + 1])
                 /\ trace[i + 1].err = NoError
                 /\ trace[i + 1].arg["force"] = TRUE

C10_Witness ==
  /\ Handler = "scrollToPreviousChunk"
  /\ ~dom.resolved
  /\ Returned
  /\ "element not found" \in recovered

----------------------------------------------------------------------------
(* C11 .. C20 *)

NavSteps == { "nav_race", "nav_close", "nav_goto", "nav_load", "nav_settle" }

\* what the claim's table says of a verb: the steps its handler goes through
\* and the calls it makes
VerbBehaviour(m) ==
  CASE m = "scrollIntoView" ->
         [steps |-> { "intoView" }, ops |-> { "evaluate" }]
    [] m \in { "scrollTo", "scroll", "mouse.wheel" } ->
         [steps |-> { "percent" }, ops |-> { "getNodeFromXpath", "scrollTo" }]
    [] m \in { "fill", "type" } ->
         [steps |-> { "fill", "fill_click", "fill_type" },
          ops |-> { "fill", "click", "type" }]
    [] m = "press" ->
         [steps |-> { "press", "press_wait" } \cup NavSteps,
          ops |-> { "press" } \cup WatcherOps]
    [] m = "click" ->
         [steps |-> { "click", "click_label", "click_first",
                      "click_first_wait", "click_forced",
                      "click_forced_wait" } \cup NavSteps,
          ops |-> { "evaluate", "count", "click" } \cup WatcherOps]
    [] m \in { "nextChunk", "prevChunk" } ->
         [steps |-> { "chunk", "chunk_wait" },
          ops |-> { "getNodeFromXpath", "scrollBy", "waitForElementScrollEnd" }]
    [] OTHER ->
         [steps |-> { "fallback", "fallback_wait" }, ops |-> { "invoke" }]

\* a log record that names the verb of the action
NamesVerb(r) == "method" \in DOMAIN r.auxiliary

\* C11: the table holds exactly the ten verbs; an action of a verb goes only
\* through the steps and calls of the handler the table gives it, scrollTo,
\* scroll and mouse.wheel sharing the percentage handler and fill and type the
\* text handler, whose records never name the verb (so aliases cannot differ);
\* nextChunk scrolls down and prevChunk up; any other verb, "Click" included,
\* is not in the table and runs the fallback.
C11_VerbsReachTheirHandlers ==
  /\ DOMAIN methodHandlerMap =
       { "scrollIntoView", "scrollTo", "scroll", "mouse.wheel", "fill", "type",
         "press", "click", "nextChunk", "prevChunk" }
  /\ methodHandlerMap["scrollTo"] = methodHandlerMap["scroll"]
  /\ methodHandlerMap["scroll"] = methodHandlerMap["mouse.wheel"]
  /\ methodHandlerMap["fill"] = methodHandlerMap["type"]
  /\ pc # "idle" =>
       /\ pc \in VerbBehaviour(ctx.method).steps \cup { "done" }
       /\ Ops(trace) \subseteq VerbBehaviour(ctx.method).ops
       /\ ctx.method \in { "scrollTo", "scroll", "mouse.wheel", "fill", "type" } =>
            \A i \in DOMAIN logs : ~NamesVerb(logs[i])
       /\ \A i \in DOMAIN trace :
            trace[i].op = "scrollBy" =>
              (ctx.method = "nextChunk" <=> trace[i].arg.top.n > 0)
       /\ ctx.method \notin DOMAIN methodHandlerMap =>
            Handler = "fallbackLocatorMethod"

C11_Witness ==
  /\ ctx.method = "Click"
  /\ Raised
  /\ Logged(<< "error performing method" >>)
  /\ Ops(trace) = {}

IsInvoke(c) == c.op = "invoke"
Invocations == SelectSeq(trace, IsInvoke)

\* the string the claim expects for one argument
Coerced(a) == IF a.t = "string" THEN a.v ELSE << >>

\* the records of level 1 that report an error
IsErrorRecord(r) == r.level = 1 /\ "error" \in DOMAIN r.auxiliary
ErrorRecords == SelectSeq(logs, IsErrorRecord)

\* C12: the fallback invokes nothing for a verb the locator does not have and
\* ends in a command-failed error; for a verb it has, the capability is
\* invoked exactly once, with every argument as a string (a missing or empty
\* one as the empty string); a failed invocation is logged once (error,
\* stack, xpath, verb, arguments) and raised as command-failed with the
\* error's message.
C12_FallbackValidatesThenInvokesOnce ==
  Handler = "fallbackLocatorMethod" =>
    /\ Len(Invocations) = Len(trace)
    /\ ctx.method \notin LocatorMethods =>
         /\ Len(Invocations) = 0
         /\ pc = "done" => CommandFailed
    /\ (ctx.method \in LocatorMethods /\ pc \in { "fallback_wait", "done" }) =>
         /\ Len(Invocations) = 1
         /\ Invocations[1].on = ctx.method
         /\ DOMAIN Invocations[1].arg = DOMAIN ctx.args
         /\ \A i \in DOMAIN ctx.args :
              Invocations[1].arg[i] = Coerced(ctx.args[i])
         /\ pc = "done" => (Returned <=> Invocations[1].err = NoError)
    /\ (Len(Invocations) = 1 /\ Failed(Invocations[1])) =>
         /\ CommandFailed
         /\ thrown.message = Invocations[1].err.message
    /\ CommandFailed =>
         /\ Len(ErrorRecords) = 1
         /\ ErrorRecords[1].auxiliary.error = thrown.message
         /\ ErrorRecords[1].auxiliary.xpath = << ctx.xpath >>
         /\ ErrorRecords[1].auxiliary.method = << ctx.method >>
         /\ ErrorRecords[1].auxiliary.args = JSONstringify(ctx.args)
         /\ "trace" \in DOMAIN ErrorRecords[1].auxiliary

C12_Witness ==
  /\ Handler = "fallbackLocatorMethod"
  /\ ctx.method \in LocatorMethods
  /\ Len(ctx.args) = 2
  /\ ctx.args[1] = Null
  /\ Len(Invocations) = 1
  /\ Invocations[1].arg[1] = << >>
  /\ Failed(Invocations[1])
  /\ CommandFailed

\* C13 (as claimed): when an action has ended in a command-failed error,
\* exactly one error record has been logged, and its auxiliary fields hold
\* the error's message, its stack trace and the xpath of the element.
C13_ErrorRecordBeforeCommandFailed ==
  CommandFailed =>
    /\ Len(ErrorRecords) = 1
    /\ { "error", "trace", "xpath" } \subseteq DOMAIN ErrorRecords[1].auxiliary
    /\ Contains(thrown.message, ErrorRecords[1].auxiliary.error)
    /\ ErrorRecords[1].auxiliary.xpath = << ctx.xpath >>

\* the click state machine terminates when its calls do
ClickTerminates == (pc = "click" /\ Handler = "clickElement") ~> (pc = "done")

\* the order of the steps of clickElement
ClickRank(p) ==
  CASE p = "click" -> 1 [] p = "click_label" -> 2 [] p = "click_first" -> 3
    [] p = "click_first_wait" -> 4 [] p = "click_forced" -> 5
    [] p = "click_forced_wait" -> 6 [] p = "nav_race" -> 7
    [] p = "nav_close" -> 8 [] p = "nav_goto" -> 9 [] p = "nav_load" -> 10
    [] p = "nav_settle" -> 11 [] p = "done" -> 12 [] OTHER -> 0

\* C14 (as claimed): a step of a click action never goes back to an earlier
\* step, and the step that ends the action ends it in one of the two
\* outcomes, success or a command-failed error.
C14_ClickEndsInSuccessOrCommandFailed ==
  [][(Handler = "clickElement" /\ pc \notin { "idle", "done" }) =>
       /\ ClickRank(pc') >= ClickRank(pc)
       /\ pc' = "done" => (Returned' \/ CommandFailed')]_vars

RatEq(a, b) == a.n * b.d = b.n * a.d

IsScrollTo(c) == c.op = "scrollTo"
ScrollTos == SelectSeq(trace, IsScrollTo)

\* the scrollable range as the claims state it
ClaimedRange ==
  IF dom.tagName = "html"
  THEN dom.layout.bodyScrollHeight - dom.layout.innerHeight
  ELSE dom.layout.scrollHeight - dom.layout.clientHeight

\* the percentage a scrollTo call was made with: 100 * top / range
UsedPercent(c) == Norm(Rat(c.arg.top.n * 100, c.arg.top.d * ClaimedRange))

\* the argument string of the action ("0%" when missing, as claimed)
GivenPercent == IF Len(ctx.args) = 0 THEN << "0", "%" >> ELSE ctx.args[1].v

\* numerals of values within the range, with their values
Numerals ==
  { << << "0" >>, Rat(0, 1) >>, << << "1" >>, Rat(1, 1) >>,
    << << "5" >>, Rat(5, 1) >>, << << "1", "0" >>, Rat(10, 1) >>,
    << << "1", "5" >>, Rat(15, 1) >>, << << "5", "0" >>, Rat(50, 1) >>,
    << << "5", "5" >>, Rat(55, 1) >>, << << "1", "0", "0" >>, Rat(100, 1) >>,
    << << "0", ".", "5" >>, Rat(1, 2) >>, << << "1", ".", "5" >>, Rat(3, 2) >>,
    << << "5", ".", "1" >>, Rat(51, 10) >>, << << ".", "5" >>, Rat(1, 2) >>,
    << << "1", "1", ".", "5" >>, Rat(23, 2) >>,
    << << "3", "7", ".", "5" >>, Rat(75, 2) >> }

Blanks == { << >>, << " " >> }
PercentSigns == { << >>, << "%" >> }

\* C15: the percentage a percentage scroll is made with lies within
\* [0, 100]: a numeral of a value in the range, with or without blanks around
\* it and a % after it, gives that value; 150% gives 100, a three-digit
\* number gives 100, a negative number gives 0, a string without a digit
\* gives 0, and a missing argument counts as 0%; only a failed call of the
\* page ends the action in an error.
C15_PercentWithinRange ==
  /\ \A i \in DOMAIN ScrollTos :
       LET used == UsedPercent(ScrollTos[i])
           str == GivenPercent
       IN /\ RatLE(Rat(0, 1), used) /\ RatLE(used, Rat(100, 1))
          /\ \A nv \in Numerals : \A l \in Blanks, r \in Blanks, sg \in PercentSigns :
               str = l \o nv[1] \o sg \o r => RatEq(used, nv[2])
          /\ str = << "1", "5", "0", "%" >> => RatEq(used, Rat(100, 1))
          /\ str = << "-", "1", "0" >> => RatEq(used, Rat(0, 1))
          /\ str = << "a", "b", "c" >> => RatEq(used, Rat(0, 1))
          /\ (Len(str) = 3 /\ str[1] \in { "1", "5" }
              /\ str[2] \in Digits /\ str[3] \in Digits) =>
               RatEq(used, Rat(100, 1))
          /\ (Len(str) >= 2 /\ str[1] = "-" /\ str[2] \in Digits) =>
               RatEq(used, Rat(0, 1))
          /\ (\A k \in DOMAIN str : str[k] \notin Digits) =>
               RatEq(used, Rat(0, 1))
          /\ Len(ctx.args) = 0 => RatEq(used, Rat(0, 1))
  /\ (Handler = "scrollElementToPercentage" /\ pc = "done") =>
       /\ Raised <=> \E i \in DOMAIN trace : Failed(trace[i])
       /\ (Returned /\ dom.resolved) => Len(ScrollTos) = 1

C15_Witness ==
  /\ Len(ScrollTos) = 1
  /\ GivenPercent = << "1", "5", "0", "%" >>
  /\ RatEq(UsedPercent(ScrollTos[1]), Rat(100, 1))
  /\ Returned

IsScrollBy(c) == c.op = "scrollBy"
ScrollBys == SelectSeq(trace, IsScrollBy)

\* the magnitude of a chunk as the claim states it
ClaimedChunk ==
  IF dom.tagName \in { "html", "body" } THEN dom.layout.viewportHeight
  ELSE dom.layout.boundingHeight

\* C16: a chunk scroll issues at most one scrollBy, on the window for the
\* html or body element and on the element otherwise, whose vertical delta is
\* the viewport height for html and body and the element's bounding height
\* otherwise, positive for nextChunk and negated for prevChunk, with no
\* horizontal delta.
C16_ChunkDeltaIsOneHeight ==
  Handler \in { "scrollToNextChunk", "scrollToPreviousChunk" } =>
    /\ Len(ScrollBys) <= 1
    /\ \A i \in DOMAIN ScrollBys :
         LET c == ScrollBys[i]
         IN /\ c.on = (IF dom.tagName \in { "html", "body" } THEN "window"
                       ELSE "element")
            /\ c.arg.left = 0
            /\ ctx.method = "nextChunk" => c.arg.top = Rat(ClaimedChunk, 1)
            /\ ctx.method = "prevChunk" => c.arg.top = Rat(0 - ClaimedChunk, 1)
            /\ c.arg.top.n + (IF ctx.method = "nextChunk" THEN 0 - ClaimedChunk
                              ELSE ClaimedChunk) = 0

C16_Witness ==
  /\ ctx.method = "prevChunk"
  /\ dom.tagName = "div"
  /\ Len(ScrollBys) = 1
  /\ ScrollBys[1].arg.top = Rat(0 - dom.layout.boundingHeight, 1)
  /\ dom.layout.boundingHeight # dom.layout.viewportHeight
  /\ Returned

\* C17: a percentage scroll goes to the vertical offset range x percentage
\* / 100, on the window with the range (body scroll height - viewport
\* height) for the html element and on the element with its own
\* (scrollHeight - clientHeight) for every other element; percentage 0 gives
\* offset 0 and percentage 100 the whole range.
C17_PercentTargetsShareOfRange ==
  Handler = "scrollElementToPercentage" =>
    /\ Len(ScrollTos) <= 1
    /\ \A i \in DOMAIN ScrollTos :
         LET c == ScrollTos[i]
             pct == parsePercent(GivenPercent)
         IN /\ c.on = (IF dom.tagName = "html" THEN "window" ELSE "element")
            /\ RatEq(c.arg.top, Norm(Rat(ClaimedRange * Norm(pct).n,
                                         Norm(pct).d * 100)))
            /\ RatEq(pct, Rat(0, 1)) => RatEq(c.arg.top, Rat(0, 1))
            /\ RatEq(pct, Rat(100, 1)) => RatEq(c.arg.top, Rat(ClaimedRange, 1))

C17_Witness ==
  /\ Handler = "scrollElementToPercentage"
  /\ dom.tagName = "body"
  /\ GivenPercent = << "1", "0", "0" >>
  /\ Len(ScrollTos) = 1
  /\ ScrollTos[1].on = "element"
  /\ ScrollTos[1].arg.top =
       Rat(dom.layout.scrollHeight - dom.layout.clientHeight, 1)
  /\ Returned

\* the place of a call in the order the claim gives
StepRank(op) ==
  CASE op \in { "evaluate", "count", "click", "press" } -> 1
    [] op \in { "once", "setTimeout" } -> 2
    [] op = "close" -> 3
    [] op = "goto" -> 4
    [] op = "waitForLoadState" -> 5
    [] op = "_waitForSettledDom" -> 6
    [] OTHER -> 0

\* C18: in a click or key-press action no call starts before the one before
\* it is done, and the calls come in the order: element evaluation, label
\* count and click attempts (or the key press), then the subscription and
\* timer of the race, then the tab close, then the navigation, then the
\* content-loaded wait, then the settle wait; the race starts only after a
\* click attempt (or the press) succeeded with none pending, and a tab is
\* closed, the page navigated or the settle wait started only once the race
\* is decided.
C18_StepsAreSequential ==
  Handler \in { "clickElement", "pressKey" } =>
    /\ \A i \in DOMAIN trace :
         /\ StepRank(trace[i].op) > 0
         /\ i < Len(trace) =>
              /\ trace[i].err # Pending
              /\ StepRank(trace[i].op) <= StepRank(trace[i + 1].op)
    /\ Has("once") =>
         /\ \A i \in DOMAIN trace : trace[i].err # Pending
         /\ \E i \in DOMAIN trace :
              /\ trace[i].op \in { "click", "press" }
              /\ trace[i].err = NoError
              /\ trace[i + 1].op = "once"
    /\ Ops(trace) \cap (TabOps \cup { "_waitForSettledDom" }) # {} =>
         (~raceArmed /\ Has("once"))
    /\ Ops(trace) \cap TabOps # {} => newOpenedTab # NoTab
    /\ Has("goto") => Succeeded("close")
    /\ Has("waitForLoadState") => Succeeded("goto")
    /\ (Has("_waitForSettledDom") /\ newOpenedTab # NoTab) =>
         Succeeded("waitForLoadState")
    /\ raceArmed => pc = "nav_race"

C18_Witness ==
  /\ Handler = "clickElement"
  /\ Returned
  /\ Len(ClickAttempts) = 2
  /\ Succeeded("close") /\ Succeeded("goto") /\ Succeeded("waitForLoadState")
  /\ Has("_waitForSettledDom")

\* the options the caller gave to click: the first argument, none if absent
GivenOptions == IF Len(ctx.args) = 0 THEN EmptyOptions ELSE ctx.args[1].v

\* C19: the first click attempt runs with the caller's options and timeout
\* 5000, whatever timeout the caller gave; the forced attempt runs with the
\* caller's options and force = TRUE, whatever force the caller gave; no
\* other option is added, dropped or changed in either attempt.
C19_ClickOptionsForwarded ==
  Handler = "clickElement" =>
    LET a == ClickAttempts
    IN /\ Len(a) >= 1 =>
            /\ DOMAIN a[1].arg = DOMAIN GivenOptions \cup { "timeout" }
            /\ a[1].arg["timeout"] = 5000
            /\ \A k \in DOMAIN GivenOptions \ { "timeout" } :
                 a[1].arg[k] = GivenOptions[k]
       /\ Len(a) >= 2 =>
            /\ DOMAIN a[2].arg = DOMAIN GivenOptions \cup { "force" }
            /\ a[2].arg["force"] = TRUE
            /\ \A k \in DOMAIN GivenOptions \ { "force" } :
                 a[2].arg[k] = GivenOptions[k]
            /\ \A k \in DOMAIN GivenOptions \ { "timeout", "force" } :
                 a[1].arg[k] = a[2].arg[k]

C19_Witness ==
  /\ Handler = "clickElement"
  /\ Len(ctx.args) = 1
  /\ GivenOptions["timeout"] # 5000
  /\ GivenOptions["force"] = FALSE
  /\ Len(ClickAttempts) = 2
  /\ ClickAttempts[1].arg["timeout"] = 5000
  /\ ClickAttempts[2].arg["force"] = TRUE
  /\ ClickAttempts[2].arg["button"] = "right"

IsScrollEnd(c) == c.op = "waitForElementScrollEnd"

\* C20: a chunk scroll that has issued its scrollBy has not returned while
\* the scroll-end signal of the scrolled region is outstanding; it returns
\* success only after that signal resolved, the wait being its last call,
\* and a signal that fails ends the action in a command-failed error.
C20_ChunkWaitsForScrollEnd ==
  Handler \in { "scrollToNextChunk", "scrollToPreviousChunk" } =>
    /\ (Len(ScrollBys) = 1 /\ Returned) =>
         LET last == trace[Len(trace)]
         IN /\ IsScrollEnd(last)
            /\ last.err = NoError
            /\ IsScrollBy(trace[Len(trace) - 1])
            /\ last.on = (IF ScrollBys[1].on = "window" THEN "scrollingElement"
                          ELSE "element")
    /\ (Len(ScrollBys) = 1 /\ ~(\E i \in DOMAIN trace : IsScrollEnd(trace[i]))) =>
         (pc = "chunk_wait" /\ result = "pending")
    /\ \A i \in DOMAIN trace :
         (IsScrollEnd(trace[i]) /\ Failed(trace[i])) =>
           (CommandFailed /\ thrown.message = trace[i].err.message)

C20_Witness ==
  /\ Handler = "scrollToNextChunk"
  /\ dom.tagName = "body"
  /\ Len(ScrollBys) = 1
  /\ IsScrollEnd(trace[Len(trace)])
  /\ Failed(trace[Len(trace)])
  /\ CommandFailed

----------------------------------------------------------------------------
(* C21 .. C26 *)

\* everything of the layout but the two vertical scroll offsets
Horizontal(l) ==
  [k \in DOMAIN l \ { "scrollY", "scrollTop" } |-> l[k]]

\* C21: no step of a percentage scroll or a chunk scroll changes the
\* horizontal offset of the window or of the element (nor anything of the
\* layout but the vertical offset of the region that is scrolled).
C21_HorizontalOffsetPreserved ==
  [][(Handler \in ScrollHandlers /\ pc \notin { "idle", "done" }) =>
       /\ dom'.layout.scrollX = dom.layout.scrollX
       /\ dom'.layout.scrollLeft = dom.layout.scrollLeft
       /\ Horizontal(dom'.layout) = Horizontal(dom.layout)
       /\ dom'.layout.scrollY # dom.layout.scrollY =>
            (trace'[Len(trace')].on = "window"
             /\ dom'.layout.scrollTop = dom.layout.scrollTop)
       /\ dom'.layout.scrollTop # dom.layout.scrollTop =>
            trace'[Len(trace')].on = "element"]_vars

C21_Witness ==
  /\ Handler = "scrollElementToPercentage"
  /\ dom.tagName = "html"
  /\ Len(ScrollTos) = 1
  /\ ScrollTos[1].arg.left = 30
  /\ dom.layout.scrollX = 30
  /\ dom.layout.scrollY # Rat(450, 1)
  /\ Returned

\* C22 (as claimed): a click attempt made on a following-sibling or a
\* preceding-sibling label is made on the label of that kind that is nearest
\* to the radio input.
C22_NearestSiblingLabelIsClicked ==
  Handler = "clickElement" =>
    \A i \in DOMAIN ClickAttempts :
      ClickAttempts[i].on.kind \in { "following", "preceding" } =>
        StepsFromInput(dom, ClickAttempts[i].on.kind,
                       ClickedIndex(dom, ClickAttempts[i].on)) = 1

IsClose(c) == c.op = "close"
IsGoto(c) == c.op = "goto"

\* a "page" event that does not decide a race
LatePage == tabsOpened' > tabsOpened /\ ~(pc = "nav_race" /\ raceArmed)

\* C23: an action closes at most one tab, the winner of its race, and
\* navigates the original page at most once; every other tab opened during
\* the action is still open when it ends; and a "page" event that comes when
\* no race is undecided (after the timer fired, or after another page won)
\* changes nothing of the action or of the original page.
C23_RaceIsOneShot ==
  /\ [](/\ Len(SelectSeq(trace, IsClose)) <= 1
        /\ Len(SelectSeq(trace, IsGoto)) <= 1
        /\ \A i \in DOMAIN trace :
             IsClose(trace[i]) =>
               (trace[i].on = newOpenedTab /\ newOpenedTab # NoTab)
        /\ pc = "done" => actionTabs \ { newOpenedTab } \subseteq openTabs)
  /\ [][LatePage =>
          /\ UNCHANGED << pc, newOpenedTab, raceArmed, trace, logs, result,
                          thrown, pageUrl, loadState, domSettled >>
          /\ openTabs' = openTabs \cup { Tab(tabsOpened') }]_vars

C23_Witness ==
  /\ Handler = "clickElement"
  /\ Returned
  /\ Has("once")
  /\ newOpenedTab = NoTab
  /\ listeners = 0
  /\ openTabs # {}
  /\ ~Has("close")

\* C24 (as claimed): when no action is running (before the first one, and
\* after each has returned or thrown) no "page" listener registered by the
\* watcher is live on the context.
C24_NoListenerOutlivesTheWatcher ==
  pc \in { "idle", "done" } => listeners = 0

\* the calls of click resolution and of the key press
ResolutionOps == { "evaluate", "count", "click", "press" }

\* the last call of click resolution or of the key press failed
InteractionFailed ==
  \E i \in DOMAIN trace :
    /\ trace[i].op \in ResolutionOps
    /\ Failed(trace[i])
    /\ \A j \in DOMAIN trace : j > i => trace[j].op \notin ResolutionOps

\* C25: when the radio detection, the label resolution, the last click
\* attempt or the key press of a click or key-press action has failed, the
\* action has ended in a command-failed error and the watcher was never
\* started: no subscription, no timer, no tab closed, no navigation of the
\* original page, no settle wait.
C25_FailedInteractionStartsNoWatcher ==
  (/\ Handler \in { "clickElement", "pressKey" }
   /\ pc \notin { "idle", "click_forced" }
   /\ InteractionFailed) =>
    /\ CommandFailed
    /\ Ops(trace) \cap WatcherOps = {}
    /\ ~raceArmed
    /\ newOpenedTab = NoTab
    /\ pageUrl = ctx.initialUrl

C25_Witness ==
  /\ Handler = "clickElement"
  /\ Raised
  /\ Len(trace) = 2
  /\ trace[2].op = "count"
  /\ Failed(trace[2])

\* a task that has ended, by returning a result or by rejecting
TaskEnded(t) == evalTasks[t].pc = "done"

\* C26 (as claimed): in the task of a testcase, a session that has been
\* initialised has been closed exactly once when the task ends, whether the
\* task function returned or threw, and no error raised while loading,
\* initialising, running or closing escapes the task: the task then returns
\* a result with _success = false that carries the collected logs.
C26_TaskClosesOnceAndCatchesEveryError ==
  \A t \in Testcases :
    TaskEnded(t) =>
      /\ evalTasks[t].initialised => evalTasks[t].closeCalls = 1
      /\ evalTasks[t].escaped = "none"
      /\ evalTasks[t].raised =>
           /\ evalTasks[t].result.from = "catch"
           /\ ~evalTasks[t].result.success
           /\ evalTasks[t].result.logs = evalTasks[t].logs

====
